---------------------------- MODULE Spec2Model ----------------------------
(***************************************************************************)
(* A model of the simulation engine of the terminal arcade game: the       *)
(* entity records (Player, Enemy, Formation, Projectile, Particle,         *)
(* Pickup), the per-frame update pass App::update_game, the collision      *)
(* resolver App::check_collisions and the action processing of the main    *)
(* loop.  Unsigned cells are naturals; casts between u16 and i16 and the   *)
(* wrapping u8 counters keep their width.                                  *)
(*                                                                         *)
(* Option<T> is modelled as a sequence: << >> is None, <<v>> is Some(v).   *)
(* Vec indices (formation_id, enemy_indices, removal marks) keep the       *)
(* 0-based values of the code; element i of a Vec is s[i + 1].             *)
(***************************************************************************)
EXTENDS Integers, Sequences, FiniteSets, TLC

VARIABLES
    running,             \* App.running
    game_state,          \* App.game_state
    player,              \* App.player
    enemies,             \* App.enemies
    formations,          \* App.formations
    projectiles,         \* App.projectiles
    particles,           \* App.particles
    pickups,             \* App.pickups
    score,               \* App.score
    screen_width,        \* App.screen_width
    screen_height,       \* App.screen_height
    frame_count,         \* App.frame_count
    spawn_delay_frames,  \* App.spawn_delay_frames
    pc,                  \* position in the body of App::run's loop
    hist                 \* history variable (no program state)

vars == <<running, game_state, player, enemies, formations, projectiles, particles,
          pickups, score, screen_width, screen_height, frame_count,
          spawn_delay_frames, pc, hist>>

--------------------------------------------------------------------------
(* Integer helpers                                                         *)

Max(a, b) == IF a >= b THEN a ELSE b

Min(a, b) == IF a <= b THEN a ELSE b

Abs(a) == IF a < 0 THEN -a ELSE a

\* u8/u16 saturating_sub
SaturatingSub(a, b) == Max(0, a - b)

\* `v as i16` of a u16 value
AsI16(v) == IF v % 65536 >= 32768 THEN (v % 65536) - 65536 ELSE v % 65536

\* `v as u16` of an i16 value
AsU16(v) == v % 65536

\* u8::wrapping_add(1)
WrappingInc8(v) == (v + 1) % 256

None == << >>

Some(v) == <<v>>

IsSome(o) == Len(o) = 1

Unwrap(o) == o[1]

\* s with f applied to every element (for x in &mut s { x.f() }), computed
\* element by element into a sequence value
MapSeq(s, F(_)) == [i \in 1..Len(s) |-> F(s[i])] \o << >>

RECURSIVE SumSeq(_)
SumSeq(s) == IF s = << >> THEN 0 ELSE Head(s) + SumSeq(Tail(s))


MinOf(S) == CHOOSE m \in S : \A n \in S : m <= n

MaxOf(S) == CHOOSE m \in S : \A n \in S : m >= n

--------------------------------------------------------------------------
(* Enemy (entities/enemy.rs)                                               *)

EnemyTypes == {"Basic", "Fast", "Tank"}

Enemy_initial_health(enemy_type) ==
    CASE enemy_type = "Basic" -> 15
      [] enemy_type = "Fast" -> 10
      [] enemy_type = "Tank" -> 30

Enemy_new_in_formation(x, y, enemy_type, formation_id, offset) ==
    [x |-> x, y |-> y,
     health |-> Enemy_initial_health(enemy_type),
     enemy_type |-> enemy_type,
     fire_cooldown |-> 0,
     formation_id |-> Some(formation_id),
     formation_offset |-> offset,
     damage_flash_frames |-> 0]

Enemy_move_interval(enemy_type) ==
    CASE enemy_type = "Basic" -> 8
      [] enemy_type = "Fast" -> 5
      [] enemy_type = "Tank" -> 10

Enemy_update(e) ==
    LET flashed == [e EXCEPT !.damage_flash_frames =
                        IF @ > 0 THEN @ - 1 ELSE @]
    IN  IF IsSome(flashed.formation_id)
        THEN [flashed EXCEPT !.fire_cooldown = WrappingInc8(@)]
        ELSE LET moved == IF flashed.fire_cooldown
                                % Enemy_move_interval(flashed.enemy_type) = 0
                          THEN [flashed EXCEPT !.y = @ + 1]
                          ELSE flashed
             IN  [moved EXCEPT !.fire_cooldown = WrappingInc8(@)]

Enemy_update_formation_position(e, center_x, center_y) ==
    LET new_x == AsI16(center_x) + e.formation_offset[1]
        new_y == AsI16(center_y) + e.formation_offset[2]
    IN  [e EXCEPT !.x = IF new_x >= 0 THEN AsU16(new_x) ELSE @,
                  !.y = IF new_y >= 0 THEN AsU16(new_y) ELSE @]

Enemy_can_fire(e) == e.fire_cooldown % 120 = 0

\* Mutant: wrapping_sub instead of saturating_sub
Enemy_take_damage_wrapping(e, damage) ==
    [e EXCEPT !.health = (@ - damage) % 256,
              !.damage_flash_frames = 10]

Enemy_take_damage(e, damage) ==
    [e EXCEPT !.health = SaturatingSub(@, damage),
              !.damage_flash_frames = 10]

\* Mutant: an enemy never counts as destroyed
Enemy_is_alive_always(e) == TRUE

Enemy_is_alive(e) == e.health > 0

Enemy_get_width(e) ==
    CASE e.enemy_type = "Basic" -> 7
      [] e.enemy_type = "Fast" -> 8
      [] e.enemy_type = "Tank" -> 8

Enemy_get_height(e) ==
    CASE e.enemy_type = "Basic" -> 3
      [] e.enemy_type = "Fast" -> 5
      [] e.enemy_type = "Tank" -> 5

Enemy_get_points(e) ==
    CASE e.enemy_type = "Basic" -> 10
      [] e.enemy_type = "Fast" -> 20
      [] e.enemy_type = "Tank" -> 30

--------------------------------------------------------------------------
(* Formation (entities/formation.rs)                                       *)

FormationTypes == {"VShape", "Diamond", "Wall", "Block"}

Formation_new(center_x, center_y, formation_type) ==
    [center_x |-> center_x, center_y |-> center_y,
     formation_type |-> formation_type,
     direction_x |-> 1,
     frame_counter |-> 0,
     enemy_indices |-> << >>]

Formation_get_positions(formation_type) ==
    CASE formation_type = "VShape" ->
            << <<0, 0>>, <<-8, 4>>, <<-16, 8>>, <<-24, 12>>,
               <<8, 4>>, <<16, 8>>, <<24, 12>> >>
      [] formation_type = "Diamond" ->
            << <<0, 0>>, <<-8, 4>>, <<8, 4>>, <<-16, 8>>, <<0, 8>>, <<16, 8>>,
               <<-8, 12>>, <<8, 12>>, <<0, 16>> >>
      [] formation_type = "Wall" ->
            << <<-24, 0>>, <<-16, 0>>, <<-8, 0>>, <<0, 0>>, <<8, 0>>, <<16, 0>>,
               <<24, 0>>, <<-24, 4>>, <<-16, 4>>, <<-8, 4>>, <<0, 4>>, <<8, 4>>,
               <<16, 4>>, <<24, 4>> >>
      [] formation_type = "Block" ->
            << <<-12, 0>>, <<-4, 0>>, <<4, 0>>, <<12, 0>>,
               <<-12, 4>>, <<-4, 4>>, <<4, 4>>, <<12, 4>>,
               <<-12, 8>>, <<-4, 8>>, <<4, 8>>, <<12, 8>>,
               <<-12, 12>>, <<-4, 12>>, <<4, 12>>, <<12, 12>> >>

\* positions.iter().map(|(x, _)| *x).min() / .max()
Formation_min_offset(formation_type) ==
    LET positions == Formation_get_positions(formation_type)
    IN  MinOf({positions[i][1] : i \in 1..Len(positions)})

Formation_max_offset(formation_type) ==
    LET positions == Formation_get_positions(formation_type)
    IN  MaxOf({positions[i][1] : i \in 1..Len(positions)})

\* Mutant: the right margin compared with < instead of <=
Formation_step_allowed_strict(formation_type, new_x, max_x) ==
    LET left_edge == new_x + Formation_min_offset(formation_type)
        right_edge == new_x + Formation_max_offset(formation_type)
    IN  left_edge >= 5 /\ right_edge < AsI16(max_x) - 10

\* Mutant: the right margin not checked at all
Formation_step_allowed_left_only(formation_type, new_x, max_x) ==
    LET left_edge == new_x + Formation_min_offset(formation_type)
    IN  left_edge >= 5

\* The bounds test of Formation::update for a candidate centre new_x (an i16)
Formation_step_allowed(formation_type, new_x, max_x) ==
    LET left_edge == new_x + Formation_min_offset(formation_type)
        right_edge == new_x + Formation_max_offset(formation_type)
    IN  left_edge >= 5 /\ right_edge <= AsI16(max_x) - 10

\* Mutant: a rejected step turns the formation left instead of inverting it
Formation_update_turn_left(f, max_x) ==
    LET counter == f.frame_counter + 1
        descended == IF counter % 8 = 0 THEN f.center_y + 1 ELSE f.center_y
        new_x == AsI16(f.center_x) + f.direction_x
        base == [f EXCEPT !.frame_counter = counter, !.center_y = descended]
    IN  IF counter % 4 = 0
        THEN IF Formation_step_allowed(f.formation_type, new_x, max_x)
             THEN [base EXCEPT !.center_x = AsU16(new_x)]
             ELSE [base EXCEPT !.direction_x = -1]
        ELSE base

\* Mutant: the descent comes every fourth update
Formation_update_descend_early(f, max_x) ==
    LET counter == f.frame_counter + 1
        descended == IF counter % 4 = 0 THEN f.center_y + 1 ELSE f.center_y
        new_x == AsI16(f.center_x) + f.direction_x
        base == [f EXCEPT !.frame_counter = counter, !.center_y = descended]
    IN  IF counter % 4 = 0
        THEN IF Formation_step_allowed(f.formation_type, new_x, max_x)
             THEN [base EXCEPT !.center_x = AsU16(new_x)]
             ELSE [base EXCEPT !.direction_x = -f.direction_x]
        ELSE base

Formation_update(f, max_x) ==
    LET counter == f.frame_counter + 1
        descended == IF counter % 8 = 0 THEN f.center_y + 1 ELSE f.center_y
        new_x == AsI16(f.center_x) + f.direction_x
        base == [f EXCEPT !.frame_counter = counter, !.center_y = descended]
    IN  IF counter % 4 = 0
        THEN IF Formation_step_allowed(f.formation_type, new_x, max_x)
             THEN [base EXCEPT !.center_x = AsU16(new_x)]
             ELSE [base EXCEPT !.direction_x = -f.direction_x]
        ELSE base

--------------------------------------------------------------------------
(* Projectile (entities/projectile.rs)                                     *)

\* Mutant: the damage given is ignored
Projectile_new_with_damage_default(x, y, owner, projectile_type, velocity_x, lifetime, damage) ==
    [x |-> x, y |-> y, owner |-> owner, damage |-> 10,
     projectile_type |-> projectile_type,
     velocity_x |-> velocity_x, lifetime |-> lifetime]

Projectile_new_with_damage(x, y, owner, projectile_type, velocity_x, lifetime, damage) ==
    [x |-> x, y |-> y, owner |-> owner, damage |-> damage,
     projectile_type |-> projectile_type,
     velocity_x |-> velocity_x, lifetime |-> lifetime]

Projectile_new_with_type(x, y, owner, projectile_type, velocity_x, lifetime) ==
    [x |-> x, y |-> y, owner |-> owner,
     damage |-> IF owner = "Player" THEN 10 ELSE 10,
     projectile_type |-> projectile_type,
     velocity_x |-> velocity_x, lifetime |-> lifetime]

Projectile_new(x, y, owner) ==
    [x |-> x, y |-> y, owner |-> owner,
     damage |-> IF owner = "Player" THEN 10 ELSE 10,
     projectile_type |-> "Bullet",
     velocity_x |-> 0, lifetime |-> None]

\* Mutant: a bomb moves on every update
Projectile_update_bomb_fast(p) ==
    LET lifetime == IF IsSome(p.lifetime) /\ Unwrap(p.lifetime) > 0
                    THEN Some(Unwrap(p.lifetime) - 1)
                    ELSE p.lifetime
        should_move == IF p.projectile_type = "BomberProjectile"
                       THEN TRUE
                       ELSE TRUE
        y == IF should_move
             THEN IF p.owner = "Player"
                  THEN (IF p.y > 0 THEN p.y - 1 ELSE p.y)
                  ELSE p.y + 1
             ELSE p.y
        new_x == AsI16(p.x) + p.velocity_x
        x == IF p.velocity_x # 0 /\ new_x >= 0 THEN AsU16(new_x) ELSE p.x
    IN  [p EXCEPT !.lifetime = lifetime, !.y = y, !.x = x]

Projectile_update(p) ==
    LET lifetime == IF IsSome(p.lifetime) /\ Unwrap(p.lifetime) > 0
                    THEN Some(Unwrap(p.lifetime) - 1)
                    ELSE p.lifetime
        should_move == IF p.projectile_type = "BomberProjectile"
                       THEN (~IsSome(lifetime)) \/ Unwrap(lifetime) % 3 = 0
                       ELSE TRUE
        y == IF should_move
             THEN IF p.owner = "Player"
                  THEN (IF p.y > 0 THEN p.y - 1 ELSE p.y)
                  ELSE p.y + 1
             ELSE p.y
        new_x == AsI16(p.x) + p.velocity_x
        x == IF p.velocity_x # 0 /\ new_x >= 0 THEN AsU16(new_x) ELSE p.x
    IN  [p EXCEPT !.lifetime = lifetime, !.y = y, !.x = x]

\* Mutant: a projectile in row 0 is kept
Projectile_is_out_of_bounds_row_zero_kept(p, min_x, max_x, max_y) ==
    IF IsSome(p.lifetime) /\ Unwrap(p.lifetime) = 0
    THEN TRUE
    ELSE p.y >= max_y \/ p.x < min_x \/ p.x >= max_x

\* Mutant: the lifetime is not looked at
Projectile_is_out_of_bounds_position_only(p, min_x, max_x, max_y) ==
    p.y = 0 \/ p.y >= max_y \/ p.x < min_x \/ p.x >= max_x

Projectile_is_out_of_bounds(p, min_x, max_x, max_y) ==
    IF IsSome(p.lifetime) /\ Unwrap(p.lifetime) = 0
    THEN TRUE
    ELSE p.y = 0 \/ p.y >= max_y \/ p.x < min_x \/ p.x >= max_x

--------------------------------------------------------------------------
(* Player (entities/player.rs)                                             *)

WeaponTypes == {"BasicGun", "Sword", "Bug", "Bomber"}

Player_new(x, y) ==
    [x |-> x, y |-> y, health |-> 100, fire_cooldown |-> 0,
     current_weapon |-> "BasicGun", damage_flash_frames |-> 0]

Player_move_left(p, min_x) == IF p.x > min_x THEN [p EXCEPT !.x = @ - 1] ELSE p

\* Mutant: no test against the limit
Player_move_right_unchecked(p, max_x) == [p EXCEPT !.x = @ + 1]

Player_move_right(p, max_x) == IF p.x < max_x THEN [p EXCEPT !.x = @ + 1] ELSE p

Player_move_up(p, min_y) == IF p.y > min_y THEN [p EXCEPT !.y = @ - 1] ELSE p

Player_move_down(p, max_y) == IF p.y < max_y THEN [p EXCEPT !.y = @ + 1] ELSE p

\* Mutant: the cooldown is ignored
Player_can_fire_always(p) == TRUE

\* Mutant: a ship that is flashing cannot fire
Player_can_fire_not_flashing(p) == p.fire_cooldown = 0 /\ p.damage_flash_frames = 0

Player_can_fire(p) == p.fire_cooldown = 0

Player_reset_cooldown(p) ==
    [p EXCEPT !.fire_cooldown =
        CASE p.current_weapon = "BasicGun" -> 10
          [] p.current_weapon = "Sword" -> 8
          [] p.current_weapon = "Bug" -> 10
          [] p.current_weapon = "Bomber" -> 30]

Player_update_cooldown(p) ==
    [p EXCEPT !.fire_cooldown = IF @ > 0 THEN @ - 1 ELSE @,
              !.damage_flash_frames = IF @ > 0 THEN @ - 1 ELSE @]

\* Mutant: wrapping_sub instead of saturating_sub
Player_take_damage_wrapping(p, damage) ==
    [p EXCEPT !.health = (@ - damage) % 256,
              !.damage_flash_frames = 10]

Player_take_damage(p, damage) ==
    [p EXCEPT !.health = SaturatingSub(@, damage),
              !.damage_flash_frames = 10]

Player_is_alive(p) == p.health > 0

Player_get_width == 5

Player_get_height == 3

\* try_fire: <<the player afterwards, the projectiles returned>>
Player_try_fire(p) ==
    IF ~Player_can_fire(p)
    THEN <<p, << >> >>
    ELSE LET center_x == p.x + Player_get_width \div 2
             fire_y == p.y
             shots ==
                CASE p.current_weapon = "BasicGun" ->
                        << Projectile_new_with_type(center_x, fire_y, "Player",
                                                    "Bullet", 0, None) >>
                  [] p.current_weapon = "Sword" ->
                        << Projectile_new_with_type(center_x,
                                                    SaturatingSub(fire_y, 1),
                                                    "Player", "Slash", 0,
                                                    Some(10)) >>
                  [] p.current_weapon = "Bug" ->
                        << Projectile_new_with_type(center_x, fire_y, "Player",
                                                    "BugShot", -1, None),
                           Projectile_new_with_type(center_x, fire_y, "Player",
                                                    "BugShot", 1, None) >>
                  [] p.current_weapon = "Bomber" ->
                        << Projectile_new_with_damage(center_x, fire_y, "Player",
                                                      "BomberProjectile", 0,
                                                      Some(90), 5) >>
         IN  <<Player_reset_cooldown(p), shots>>

Player_change_weapon(p, weapon_type) == [p EXCEPT !.current_weapon = weapon_type]

--------------------------------------------------------------------------
(* Particle (entities/particle.rs)                                         *)

Particle_new(x, y, velocity_x, velocity_y, lifetime, char) ==
    [x |-> x, y |-> y, velocity_x |-> velocity_x, velocity_y |-> velocity_y,
     lifetime |-> lifetime, char |-> char]

Particle_update(p) ==
    LET new_x == AsI16(p.x) + p.velocity_x
        new_y == AsI16(p.y) + p.velocity_y
    IN  [p EXCEPT !.lifetime = IF @ > 0 THEN @ - 1 ELSE @,
                  !.x = IF p.velocity_x # 0 /\ new_x >= 0 THEN AsU16(new_x) ELSE @,
                  !.y = IF p.velocity_y # 0 /\ new_y >= 0 THEN AsU16(new_y) ELSE @]

\* Mutant: no particle is ever dead
Particle_is_dead_never(p) == FALSE

Particle_is_dead(p) == p.lifetime = 0

Particle_is_out_of_bounds(p, min_x, max_x, max_y) ==
    p.y >= max_y \/ p.x < min_x \/ p.x >= max_x

create_explosion_particles(center_x, center_y) ==
    LET directions == << <<0, -1>>, <<1, -1>>, <<1, 0>>, <<1, 1>>,
                         <<0, 1>>, <<-1, 1>>, <<-1, 0>>, <<-1, -1>> >>
    IN  [i \in 1..8 |-> Particle_new(center_x, center_y, directions[i][1] * 1,
                                     directions[i][2] * 1, 6, "*")]
        \o << Particle_new(center_x, center_y, 0, 0, 4, "o") >>

--------------------------------------------------------------------------
(* Pickup (entities/pickup.rs)                                             *)

Pickup_new(x, y, weapon_type) ==
    [x |-> x, y |-> y, weapon_type |-> weapon_type, frame_counter |-> 0]

Pickup_update(p) ==
    LET counter == WrappingInc8(p.frame_counter)
    IN  [p EXCEPT !.frame_counter = counter,
                  !.y = IF counter % 15 = 0 THEN @ + 1 ELSE @]

Pickup_is_out_of_bounds(p, max_y) == p.y >= max_y

Pickup_get_width == 1

Pickup_get_height == 1

--------------------------------------------------------------------------
(* App (app.rs): the world container as a record, and its operations as    *)
(* functions from world to world.                                          *)

edge_width == 50

\* self.screen_width.saturating_sub(self.edge_width * 2 + 2)
game_area_width(w) == SaturatingSub(w.screen_width, (edge_width * 2 + 2) % 65536)

\* match rng.random_range(0..4) in spawn_formation
FormationTypeOfDraw(n) ==
    CASE n = 0 -> "VShape"
      [] n = 1 -> "Diamond"
      [] n = 2 -> "Wall"
      [] OTHER -> "Block"

\* match rng.random_range(0..10) in spawn_formation
EnemyTypeOfDraw(n) ==
    CASE n \in 0..6 -> "Basic"
      [] n \in 7..8 -> "Fast"
      [] OTHER -> "Tank"

\* match rng.random_range(0..4) in spawn_pickup
WeaponTypeOfDraw(n) ==
    CASE n = 0 -> "BasicGun"
      [] n = 1 -> "Sword"
      [] n = 2 -> "Bug"
      [] OTHER -> "Bomber"

\* The values rng.random_range(min_x..max_x.max(min_x + 1)) can return for the
\* formation centre, given the lane width
FormationCenterRange(lane) == 30 .. (Max(SaturatingSub(lane, 30), 30 + 1) - 1)

\* The same for the pickup column
PickupColumnRange(lane) == 3 .. (Max(SaturatingSub(lane, 3), 3 + 1) - 1)

\* Mutant: the member list counts from one
spawn_formation_one_based(w, type_draw, center_x, enemy_draw) ==
    LET formation_type == FormationTypeOfDraw(type_draw)
        center_y == 5
        formation_id == Len(w.formations)
        positions == Formation_get_positions(formation_type)
        enemy_type == EnemyTypeOfDraw(enemy_draw)
        first_idx == Len(w.enemies)
        spawned == [i \in 1..Len(positions) |->
                      Enemy_new_in_formation(
                          AsU16(Max(AsI16(center_x) + positions[i][1], 0)),
                          AsU16(Max(AsI16(center_y) + positions[i][2], 0)),
                          enemy_type, formation_id, positions[i])]
        formation == [Formation_new(center_x, center_y, formation_type)
                        EXCEPT !.enemy_indices =
                            [i \in 1..Len(positions) |-> first_idx + i]]
    IN  [w EXCEPT !.enemies = @ \o spawned,
                  !.formations = Append(@, formation)]

\* spawn_formation with its three random draws given
spawn_formation(w, type_draw, center_x, enemy_draw) ==
    LET formation_type == FormationTypeOfDraw(type_draw)
        center_y == 5
        formation_id == Len(w.formations)
        positions == Formation_get_positions(formation_type)
        enemy_type == EnemyTypeOfDraw(enemy_draw)
        first_idx == Len(w.enemies)
        spawned == [i \in 1..Len(positions) |->
                      Enemy_new_in_formation(
                          AsU16(Max(AsI16(center_x) + positions[i][1], 0)),
                          AsU16(Max(AsI16(center_y) + positions[i][2], 0)),
                          enemy_type, formation_id, positions[i])]
        formation == [Formation_new(center_x, center_y, formation_type)
                        EXCEPT !.enemy_indices =
                            [i \in 1..Len(positions) |-> first_idx + i - 1]]
    IN  [w EXCEPT !.enemies = @ \o spawned,
                  !.formations = Append(@, formation)]

\* spawn_pickup with its two random draws given
spawn_pickup(w, weapon_draw, x) ==
    [w EXCEPT !.pickups = Append(@, Pickup_new(x, 3, WeaponTypeOfDraw(weapon_draw)))]

\* App::new with the draws of its spawn_formation given
App_new(type_draw, center_x, enemy_draw) ==
    LET sw == 60
        sh == 70
        player_x == edge_width + sw \div 2
        player_y == sh - (sh \div 5)
    IN  spawn_formation(
            [running |-> TRUE,
             game_state |-> "Playing",
             player |-> Player_new(player_x, player_y),
             enemies |-> << >>,
             formations |-> << >>,
             projectiles |-> << >>,
             particles |-> << >>,
             pickups |-> << >>,
             score |-> 0,
             frame_count |-> 0,
             screen_width |-> sw,
             screen_height |-> sh,
             spawn_delay_frames |-> 0],
            type_draw, center_x, enemy_draw)

--------------------------------------------------------------------------
(* App::check_collisions.  The pass is a fold over a record c holding the  *)
(* world fields it changes and its two mark lists.                         *)

EXPLOSION_RADIUS == 8

EXPLOSION_DAMAGE == 25

RAM_DAMAGE == 20

\* sort_unstable(): ascending insertion sort
RECURSIVE InsertSorted(_, _)
InsertSorted(s, v) ==
    IF s = << >> THEN <<v>>
    ELSE IF v <= Head(s) THEN <<v>> \o s
         ELSE <<Head(s)>> \o InsertSorted(Tail(s), v)

RECURSIVE SortUnstable(_)
SortUnstable(s) ==
    IF s = << >> THEN << >> ELSE InsertSorted(SortUnstable(Tail(s)), Head(s))

Reverse(s) == [i \in 1..Len(s) |-> s[Len(s) + 1 - i]]

\* Vec::dedup(): drops an element equal to the one before it
RECURSIVE Dedup(_)
Dedup(s) ==
    IF Len(s) <= 1 THEN s
    ELSE IF s[1] = s[2] THEN Dedup(Tail(s))
         ELSE <<s[1]>> \o Dedup(Tail(s))

\* Vec::remove(idx), idx 0-based
RemoveAt(s, idx) == [i \in 1..(Len(s) - 1) |-> IF i <= idx THEN s[i] ELSE s[i + 1]]

\* for idx in marks { if idx < v.len() { v.remove(idx); } }
RECURSIVE RemoveEach(_, _)
RemoveEach(s, marks) ==
    IF marks = << >> THEN s
    ELSE RemoveEach(IF Head(marks) < Len(s) THEN RemoveAt(s, Head(marks)) ELSE s,
                    Tail(marks))

\* Mutant: the marks are not deduplicated
RemovalOrder_no_dedup(marks) == Reverse(SortUnstable(marks))

\* The removal order: sort_unstable(); reverse(); dedup()
RemovalOrder(marks) == Dedup(Reverse(SortUnstable(marks)))

\* The pruning step: the marks put in removal order, then removed one by one
Prune(s, marks) == RemoveEach(s, RemovalOrder(marks))

\* A single cell (px, py) lies inside the box at (x, y) of the given size
CellInBox(px, py, x, y, width, height) ==
    px >= x /\ px < x + width /\ py >= y /\ py < y + height

\* Two boxes overlap
BoxesOverlap(x1, y1, w1, h1, x2, y2, w2, h2) ==
    x1 < x2 + w2 /\ x1 + w1 > x2 /\ y1 < y2 + h2 /\ y1 + h1 > y2

Enemy_center_x(e) == e.x + Enemy_get_width(e) \div 2

Enemy_center_y(e) == e.y + Enemy_get_height(e) \div 2

\* Mutant: the rim of the circle is left out
InExplosionRadius_strict(projectile, e) ==
    LET dx == Abs(projectile.x - Enemy_center_x(e))
        dy == Abs(projectile.y - Enemy_center_y(e))
    IN  dx * dx + dy * dy < EXPLOSION_RADIUS * EXPLOSION_RADIUS

\* The circle test of the explosion branch
InExplosionRadius(projectile, e) ==
    LET dx == Abs(projectile.x - Enemy_center_x(e))
        dy == Abs(projectile.y - Enemy_center_y(e))
    IN  dx * dx + dy * dy <= EXPLOSION_RADIUS * EXPLOSION_RADIUS

\* Mutant: every bomb explodes, whatever its lifetime
IsExplodingBomb_any_lifetime(projectile) ==
    projectile.projectile_type = "BomberProjectile"

\* The test that sends a Player-owned projectile into the explosion branch
IsExplodingBomb(projectile) ==
    projectile.projectile_type = "BomberProjectile" /\ projectile.lifetime = Some(0)

\* An enemy after `damage`, with death bookkeeping: particles, score, mark
DamageEnemy(c, e_idx, damage) ==
    LET hit == Enemy_take_damage(c.enemies[e_idx + 1], damage)
        c1 == [c EXCEPT !.enemies[e_idx + 1] = hit]
    IN  IF ~Enemy_is_alive(hit)
        THEN [c1 EXCEPT
                !.particles = @ \o create_explosion_particles(Enemy_center_x(hit),
                                                              Enemy_center_y(hit)),
                !.score = @ + Enemy_get_points(hit),
                !.enemies_to_remove = Append(@, e_idx)]
        ELSE c1

\* The explosion loop over the enemies from index e_idx on
RECURSIVE ExplodeFrom(_, _, _)
ExplodeFrom(c, projectile, e_idx) ==
    IF e_idx >= Len(c.enemies) THEN c
    ELSE ExplodeFrom(IF InExplosionRadius(projectile, c.enemies[e_idx + 1])
                     THEN DamageEnemy(c, e_idx, EXPLOSION_DAMAGE)
                     ELSE c,
                     projectile, e_idx + 1)

\* The explosion branch for projectile p_idx
Explode(c, projectile, p_idx) ==
    LET started == [c EXCEPT !.particles =
                        @ \o create_explosion_particles(projectile.x, projectile.y)]
        done == ExplodeFrom(started, projectile, 0)
    IN  [done EXCEPT !.projectiles_to_remove = Append(@, p_idx)]

\* The enemies whose box holds the projectile's cell (0-based indices)
EnemiesHitBy(c, projectile) ==
    {e_idx \in 0..(Len(c.enemies) - 1) :
        LET e == c.enemies[e_idx + 1]
        IN  CellInBox(projectile.x, projectile.y, e.x, e.y,
                      Enemy_get_width(e), Enemy_get_height(e))}

\* Mutant: the last enemy hit absorbs the shot
DirectHit_last(c, projectile, p_idx) ==
    IF EnemiesHitBy(c, projectile) = {} THEN c
    ELSE LET e_idx == MaxOf(EnemiesHitBy(c, projectile))
             e == c.enemies[e_idx + 1]
             hit == Enemy_take_damage(e, projectile.damage)
             c1 == [c EXCEPT !.enemies[e_idx + 1] = hit,
                             !.projectiles_to_remove = Append(@, p_idx)]
         IN  IF ~Enemy_is_alive(hit)
             THEN [c1 EXCEPT
                     !.particles = @ \o create_explosion_particles(
                                            e.x + Enemy_get_width(e) \div 2,
                                            e.y + Enemy_get_height(e) \div 2),
                     !.score = @ + Enemy_get_points(hit),
                     !.enemies_to_remove = Append(@, e_idx)]
             ELSE c1

\* The bounding-box loop with its break: the first enemy hit absorbs the shot
DirectHit(c, projectile, p_idx) ==
    IF EnemiesHitBy(c, projectile) = {} THEN c
    ELSE LET e_idx == MinOf(EnemiesHitBy(c, projectile))
             e == c.enemies[e_idx + 1]
             hit == Enemy_take_damage(e, projectile.damage)
             c1 == [c EXCEPT !.enemies[e_idx + 1] = hit,
                             !.projectiles_to_remove = Append(@, p_idx)]
         IN  IF ~Enemy_is_alive(hit)
             THEN [c1 EXCEPT
                     !.particles = @ \o create_explosion_particles(
                                            e.x + Enemy_get_width(e) \div 2,
                                            e.y + Enemy_get_height(e) \div 2),
                     !.score = @ + Enemy_get_points(hit),
                     !.enemies_to_remove = Append(@, e_idx)]
             ELSE c1

\* First loop: Player-owned projectiles against enemies, from p_idx on
RECURSIVE PlayerProjectilesFrom(_, _)
PlayerProjectilesFrom(c, p_idx) ==
    IF p_idx >= Len(c.projectiles) THEN c
    ELSE LET projectile == c.projectiles[p_idx + 1]
             next == IF projectile.owner = "Player"
                     THEN IF IsExplodingBomb(projectile)
                          THEN Explode(c, projectile, p_idx)
                          ELSE DirectHit(c, projectile, p_idx)
                     ELSE c
         IN  PlayerProjectilesFrom(next, p_idx + 1)

\* Mutant: the owner is not looked at
RECURSIVE EnemyProjectilesFrom_any_owner(_, _)
EnemyProjectilesFrom_any_owner(c, p_idx) ==
    IF p_idx >= Len(c.projectiles) THEN c
    ELSE LET projectile == c.projectiles[p_idx + 1]
             next == IF CellInBox(projectile.x, projectile.y,
                                     c.player.x, c.player.y,
                                     Player_get_width, Player_get_height)
                     THEN [c EXCEPT
                             !.player = Player_take_damage(@, projectile.damage),
                             !.projectiles_to_remove = Append(@, p_idx)]
                     ELSE c
         IN  EnemyProjectilesFrom_any_owner(next, p_idx + 1)

\* Second loop: Enemy-owned projectiles against the player
RECURSIVE EnemyProjectilesFrom(_, _)
EnemyProjectilesFrom(c, p_idx) ==
    IF p_idx >= Len(c.projectiles) THEN c
    ELSE LET projectile == c.projectiles[p_idx + 1]
             next == IF projectile.owner = "Enemy"
                        /\ CellInBox(projectile.x, projectile.y,
                                     c.player.x, c.player.y,
                                     Player_get_width, Player_get_height)
                     THEN [c EXCEPT
                             !.player = Player_take_damage(@, projectile.damage),
                             !.projectiles_to_remove = Append(@, p_idx)]
                     ELSE c
         IN  EnemyProjectilesFrom(next, p_idx + 1)

\* Mutant: the ramming enemy is not marked for removal
RECURSIVE RammingFrom_keeps_enemy(_, _)
RammingFrom_keeps_enemy(c, e_idx) ==
    IF e_idx >= Len(c.enemies) THEN c
    ELSE LET e == c.enemies[e_idx + 1]
             next == IF BoxesOverlap(e.x, e.y, Enemy_get_width(e),
                                     Enemy_get_height(e), c.player.x, c.player.y,
                                     Player_get_width, Player_get_height)
                     THEN [c EXCEPT
                             !.particles = @ \o create_explosion_particles(
                                                    Enemy_center_x(e),
                                                    Enemy_center_y(e)),
                             !.player = Player_take_damage(@, RAM_DAMAGE)]
                     ELSE c
         IN  RammingFrom_keeps_enemy(next, e_idx + 1)

\* Third loop: enemies ramming the player
RECURSIVE RammingFrom(_, _)
RammingFrom(c, e_idx) ==
    IF e_idx >= Len(c.enemies) THEN c
    ELSE LET e == c.enemies[e_idx + 1]
             next == IF BoxesOverlap(e.x, e.y, Enemy_get_width(e),
                                     Enemy_get_height(e), c.player.x, c.player.y,
                                     Player_get_width, Player_get_height)
                     THEN [c EXCEPT
                             !.particles = @ \o create_explosion_particles(
                                                    Enemy_center_x(e),
                                                    Enemy_center_y(e)),
                             !.player = Player_take_damage(@, RAM_DAMAGE),
                             !.enemies_to_remove = Append(@, e_idx)]
                     ELSE c
         IN  RammingFrom(next, e_idx + 1)

\* The removal of the marked projectiles and enemies
PruneMarked(c) ==
    [c EXCEPT !.projectiles = Prune(@, c.projectiles_to_remove),
              !.enemies = Prune(@, c.enemies_to_remove)]

\* The pickups the player's box overlaps (0-based indices, ascending)
RECURSIVE PickupsFrom(_, _)
PickupsFrom(c, idx) ==
    IF idx >= Len(c.pickups) THEN c
    ELSE LET pickup == c.pickups[idx + 1]
             next == IF BoxesOverlap(pickup.x, pickup.y, Pickup_get_width,
                                     Pickup_get_height, c.player.x, c.player.y,
                                     Player_get_width, Player_get_height)
                     THEN [c EXCEPT
                             !.player = Player_change_weapon(@, pickup.weapon_type),
                             !.pickups_to_remove = Append(@, idx)]
                     ELSE c
         IN  PickupsFrom(next, idx + 1)

\* Mutant: the collected pickups are not removed
PrunePickups_none(c) == c

PrunePickups(c) == [c EXCEPT !.pickups = Prune(@, c.pickups_to_remove)]

\* The pass record of a world
CollisionPass(w) ==
    [player |-> w.player, enemies |-> w.enemies, projectiles |-> w.projectiles,
     particles |-> w.particles, pickups |-> w.pickups, score |-> w.score,
     projectiles_to_remove |-> << >>, enemies_to_remove |-> << >>,
     pickups_to_remove |-> << >>]

check_collisions(w) ==
    LET c == PrunePickups(PickupsFrom(
                PruneMarked(RammingFrom(
                    EnemyProjectilesFrom(
                        PlayerProjectilesFrom(CollisionPass(w), 0), 0), 0)), 0))
    IN  [w EXCEPT !.player = c.player, !.enemies = c.enemies,
                  !.projectiles = c.projectiles, !.particles = c.particles,
                  !.pickups = c.pickups, !.score = c.score]

--------------------------------------------------------------------------
(* App::update_game.  rnd holds the random draws of one tick:              *)
(*   type_draw, center_x, enemy_draw   the draws of spawn_formation        *)
(*   fire        the 0-based enemy indices whose random_bool(0.3) is true  *)
(*   pickup      the outcome of random_bool(0.5)                           *)
(*   weapon_draw, pickup_x             the draws of spawn_pickup           *)

SPAWN_DELAY == 90

PICKUP_PERIOD == 180

\* Mutant: the delay is not reset while enemies are alive
SpawnStep_no_reset(w, rnd) ==
    IF w.enemies = << >>
    THEN IF w.spawn_delay_frames > 0
         THEN [w EXCEPT !.spawn_delay_frames = @ - 1]
         ELSE [spawn_formation(w, rnd.type_draw, rnd.center_x, rnd.enemy_draw)
                 EXCEPT !.spawn_delay_frames = SPAWN_DELAY]
    ELSE w

\* The spawn director at the top of update_game
SpawnStep(w, rnd) ==
    IF w.enemies = << >>
    THEN IF w.spawn_delay_frames > 0
         THEN [w EXCEPT !.spawn_delay_frames = @ - 1]
         ELSE [spawn_formation(w, rnd.type_draw, rnd.center_x, rnd.enemy_draw)
                 EXCEPT !.spawn_delay_frames = SPAWN_DELAY]
    ELSE [w EXCEPT !.spawn_delay_frames = SPAWN_DELAY]

\* Projectiles: update all, then retain the ones in bounds
ProjectileStep(w) ==
    LET updated == MapSeq(w.projectiles, Projectile_update)
        Keep(p) == ~Projectile_is_out_of_bounds(p, 0, game_area_width(w),
                                                w.screen_height)
    IN  [w EXCEPT !.projectiles = SelectSeq(updated, Keep)]

\* Particles: update all, then retain the live ones in bounds
ParticleStep(w) ==
    LET updated == MapSeq(w.particles, Particle_update)
        Keep(p) == ~Particle_is_dead(p)
                   /\ ~Particle_is_out_of_bounds(p, 0, game_area_width(w),
                                                 w.screen_height)
    IN  [w EXCEPT !.particles = SelectSeq(updated, Keep)]

\* Formations: update all against the lane width
FormationStep(w) ==
    LET Step(f) == Formation_update(f, game_area_width(w))
    IN  [w EXCEPT !.formations = MapSeq(@, Step)]

\* One enemy of the enemy loop: follow the formation, then update
EnemyFollowAndUpdate(e, fs) ==
    LET followed ==
            IF IsSome(e.formation_id) /\ Unwrap(e.formation_id) < Len(fs)
            THEN LET formation == fs[Unwrap(e.formation_id) + 1]
                 IN  Enemy_update_formation_position(e, formation.center_x,
                                                     formation.center_y)
            ELSE e
    IN  Enemy_update(followed)

\* The shots of the enemy loop, in enemy order
RECURSIVE EnemyShotsFrom(_, _, _)
EnemyShotsFrom(es, fire, e_idx) ==
    IF e_idx >= Len(es) THEN << >>
    ELSE LET e == es[e_idx + 1]
             shot == IF Enemy_can_fire(e) /\ e_idx \in fire
                     THEN << Projectile_new(e.x + Enemy_get_width(e) \div 2,
                                            e.y + Enemy_get_height(e), "Enemy") >>
                     ELSE << >>
         IN  shot \o EnemyShotsFrom(es, fire, e_idx + 1)

\* The enemy loop
EnemyStep(w, rnd) ==
    LET Step(e) == EnemyFollowAndUpdate(e, w.formations)
        updated == MapSeq(w.enemies, Step)
    IN  [w EXCEPT !.enemies = updated,
                  !.projectiles = @ \o EnemyShotsFrom(updated, rnd.fire, 0)]

\* Mutant: every member must be alive
CleanupStep_all_members(w) ==
    LET OnScreen(e) == e.y < w.screen_height
        kept == SelectSeq(w.enemies, OnScreen)
        HasMember(f) ==
            /\ f.center_y < w.screen_height
            /\ \A i \in 1..Len(f.enemy_indices) :
                  /\ f.enemy_indices[i] < Len(kept)
                  /\ Enemy_is_alive(kept[f.enemy_indices[i] + 1])
    IN  [w EXCEPT !.enemies = kept,
                  !.formations = SelectSeq(@, HasMember)]

\* Mutant: the formations are never cleaned up
CleanupStep_keeps_formations(w) ==
    LET OnScreen(e) == e.y < w.screen_height
    IN  [w EXCEPT !.enemies = SelectSeq(@, OnScreen)]

\* retain the enemies on screen, then the formations with a live member
CleanupStep(w) ==
    LET OnScreen(e) == e.y < w.screen_height
        kept == SelectSeq(w.enemies, OnScreen)
        HasMember(f) ==
            f.center_y < w.screen_height
            /\ \E i \in 1..Len(f.enemy_indices) :
                  /\ f.enemy_indices[i] < Len(kept)
                  /\ Enemy_is_alive(kept[f.enemy_indices[i] + 1])
    IN  [w EXCEPT !.enemies = kept,
                  !.formations = SelectSeq(@, HasMember)]

\* Pickups: the spawn draw, update all, retain the ones in bounds
PickupStep(w, rnd) ==
    LET spawned == IF w.frame_count % PICKUP_PERIOD = 0 /\ rnd.pickup
                   THEN spawn_pickup(w, rnd.weapon_draw, rnd.pickup_x)
                   ELSE w
        updated == MapSeq(spawned.pickups, Pickup_update)
        Keep(p) == ~Pickup_is_out_of_bounds(p, w.screen_height)
    IN  [spawned EXCEPT !.pickups = SelectSeq(updated, Keep)]

\* Mutant: the terminal-condition check is missing
GameOverStep_none(w) == w

\* The terminal-condition check
GameOverStep(w) ==
    IF ~Player_is_alive(w.player) THEN [w EXCEPT !.game_state = "GameOver"] ELSE w

\* Mutant: the enemy loop runs before the formations are updated
BeforeCollisions_enemies_first(w, rnd) ==
    LET w1 == [w EXCEPT !.frame_count = @ + 1,
                        !.player = Player_update_cooldown(@)]
    IN  PickupStep(
            CleanupStep(
                FormationStep(
                    EnemyStep(
                        ParticleStep(
                            ProjectileStep(
                                SpawnStep(w1, rnd))), rnd))), rnd)

\* The world as it enters check_collisions
BeforeCollisions(w, rnd) ==
    LET w1 == [w EXCEPT !.frame_count = @ + 1,
                        !.player = Player_update_cooldown(@)]
    IN  PickupStep(
            CleanupStep(
                EnemyStep(
                    FormationStep(
                        ParticleStep(
                            ProjectileStep(
                                SpawnStep(w1, rnd)))), rnd)), rnd)

update_game(w, rnd) == GameOverStep(check_collisions(BeforeCollisions(w, rnd)))

--------------------------------------------------------------------------
(* App::process_actions                                                    *)

InputActions == {"MoveLeft", "MoveRight", "MoveUp", "MoveDown", "Fire",
                 "Pause", "Resume", "Restart", "Quit"}

\* One arm of the match; restart holds the draws of the App::new it may run
process_action(w, action, restart) ==
    CASE action = "Quit" -> [w EXCEPT !.running = FALSE]
      [] action = "Pause" -> [w EXCEPT !.game_state = "Paused"]
      [] action = "Resume" -> [w EXCEPT !.game_state = "Playing"]
      [] action = "Restart" ->
            App_new(restart.type_draw, restart.center_x, restart.enemy_draw)
      [] action = "MoveLeft" -> [w EXCEPT !.player = Player_move_left(@, 0)]
      [] action = "MoveRight" ->
            [w EXCEPT !.player =
                Player_move_right(@, SaturatingSub(game_area_width(w),
                                                   Player_get_width + 1))]
      [] action = "MoveUp" -> [w EXCEPT !.player = Player_move_up(@, 2)]
      [] action = "MoveDown" ->
            [w EXCEPT !.player =
                Player_move_down(@, SaturatingSub(w.screen_height,
                                                  Player_get_height + 1))]
      [] action = "Fire" ->
            LET fired == Player_try_fire(w.player)
            IN  [w EXCEPT !.player = fired[1],
                          !.projectiles = @ \o fired[2]]

RECURSIVE process_actions(_, _, _)
process_actions(w, actions, restart) ==
    IF actions = << >> THEN w
    ELSE process_actions(process_action(w, Head(actions), restart),
                         Tail(actions), restart)

--------------------------------------------------------------------------
(* The state machine: App::run.  One loop iteration is two steps, the top  *)
(* of the loop (terminal size, input, process_actions) and the update      *)
(* (update_game when Playing).                                             *)

\* The App as a record of the variables
World ==
    [running |-> running, game_state |-> game_state, player |-> player,
     enemies |-> enemies, formations |-> formations,
     projectiles |-> projectiles, particles |-> particles, pickups |-> pickups,
     score |-> score, screen_width |-> screen_width,
     screen_height |-> screen_height, frame_count |-> frame_count,
     spawn_delay_frames |-> spawn_delay_frames]

\* The variables take the fields of w
Becomes(w) ==
    /\ running' = w.running
    /\ game_state' = w.game_state
    /\ player' = w.player
    /\ enemies' = w.enemies
    /\ formations' = w.formations
    /\ projectiles' = w.projectiles
    /\ particles' = w.particles
    /\ pickups' = w.pickups
    /\ score' = w.score
    /\ screen_width' = w.screen_width
    /\ screen_height' = w.screen_height
    /\ frame_count' = w.frame_count
    /\ spawn_delay_frames' = w.spawn_delay_frames

\* The same for an initial state
StartsAs(w) ==
    /\ running = w.running
    /\ game_state = w.game_state
    /\ player = w.player
    /\ enemies = w.enemies
    /\ formations = w.formations
    /\ projectiles = w.projectiles
    /\ particles = w.particles
    /\ pickups = w.pickups
    /\ score = w.score
    /\ screen_width = w.screen_width
    /\ screen_height = w.screen_height
    /\ frame_count = w.frame_count
    /\ spawn_delay_frames = w.spawn_delay_frames

\* terminal.size() at the top of the loop
Resized(w, size) == [w EXCEPT !.screen_width = size[1], !.screen_height = size[2]]

\* The draws of a spawn_formation in lane `lane`: every formation type, every
\* centre of the range, and one draw for each enemy type (0..6 give Basic,
\* 7..8 Fast, 9 Tank)
SpawnDraws(lane) ==
    [type_draw : 0..3, center_x : FormationCenterRange(lane),
     enemy_draw : {0, 7, 9}]

\* The draws a tick of world w consults: a component the tick does not consult
\* is fixed, so that it does not multiply the successors
TickDraws(w) ==
    LET lane == game_area_width(w)
        spawns == w.enemies = << >> /\ w.spawn_delay_frames = 0
        n == Len(w.enemies)
        eligible == IF spawns THEN {}
                    ELSE {i \in 0..(n - 1) :
                            Enemy_can_fire(Enemy_update(w.enemies[i + 1]))}
        picks == (w.frame_count + 1) % PICKUP_PERIOD = 0
        drops == {[pickup |-> FALSE, weapon_draw |-> 0, pickup_x |-> 3]}
                 \cup (IF picks
                       THEN [pickup : {TRUE}, weapon_draw : 0..3,
                             pickup_x : PickupColumnRange(lane)]
                       ELSE {})
    IN  { [type_draw |-> s.type_draw, center_x |-> s.center_x,
           enemy_draw |-> s.enemy_draw, fire |-> f, pickup |-> d.pickup,
           weapon_draw |-> d.weapon_draw, pickup_x |-> d.pickup_x] :
            s \in (IF spawns THEN SpawnDraws(lane)
                   ELSE {[type_draw |-> 0, center_x |-> 30, enemy_draw |-> 0]}),
            f \in SUBSET eligible,
            d \in drops }

\* Top of the loop: the terminal size is read, the frame's actions processed
LoopTop(Sizes, Lists, max_iter) ==
    /\ pc = "poll"
    /\ running
    /\ hist.iter < max_iter
    /\ \E size \in Sizes, actions \in Lists :
         \E restart \in (IF \E i \in 1..Len(actions) : actions[i] = "Restart"
                         THEN SpawnDraws(0) ELSE {[type_draw |-> 0,
                                                   center_x |-> 30,
                                                   enemy_draw |-> 0]}) :
            Becomes(process_actions(Resized(World, size), actions, restart))
    /\ pc' = "update"
    /\ hist' = [hist EXCEPT !.iter = @ + 1]

\* if self.game_state == GameState::Playing { self.update_game(); }
Update ==
    /\ pc = "update"
    /\ game_state = "Playing"
    /\ \E rnd \in TickDraws(World) : Becomes(update_game(World, rnd))
    /\ pc' = "poll"

Tick == Update /\ UNCHANGED hist

\* The update is skipped when the game is paused or over
SkipUpdate ==
    /\ pc = "update"
    /\ game_state # "Playing"
    /\ pc' = "poll"
    /\ UNCHANGED <<running, game_state, player, enemies, formations, projectiles,
                   particles, pickups, score, screen_width, screen_height,
                   frame_count, spawn_delay_frames, hist>>

--------------------------------------------------------------------------
(* Spec: the App from App::new, under every single action and two terminal *)
(* sizes.                                                                  *)

MaxIter == 3

\* A terminal wide enough for a lane of 98 cells, and a small one
AppSizes == {<<200, 70>>, <<150, 40>>}

\* The action lists of a frame: none, or one action
AppLists == {<< >>} \cup {<<a>> : a \in InputActions}

Init ==
    /\ \E d \in SpawnDraws(0) : StartsAs(App_new(d.type_draw, d.center_x, d.enemy_draw))
    /\ pc = "poll"
    /\ hist = [iter |-> 0]

AppLoopTop == LoopTop(AppSizes, AppLists, MaxIter)

Next == AppLoopTop \/ Tick \/ SkipUpdate

Spec == Init /\ [][Next]_vars

--------------------------------------------------------------------------
(* SpecFormation: Formation::update alone, called as update_game calls it, *)
(* on one formation of every shape in a lane of constant width.  hist      *)
(* holds the formation as created and whether a step to the right has been *)
(* rejected at the right margin with no rejection at the left margin since.*)

MaxUpdates == 104

\* Terminal widths whose lanes are 80 (the lane of the unit tests) and 98
FormationWidths == {182, 200}

\* Starting centres: the range of the property test and around it, and the
\* centre of the boundary test
FormationCentres == (25..50) \cup {70}

\* A world holding nothing but one formation
FormationWorld(width, f) ==
    [running |-> TRUE, game_state |-> "Playing", player |-> Player_new(0, 0),
     enemies |-> << >>, formations |-> <<f>>, projectiles |-> << >>,
     particles |-> << >>, pickups |-> << >>, score |-> 0,
     screen_width |-> width, screen_height |-> 70, frame_count |-> 0,
     spawn_delay_frames |-> 0]

InitFormation ==
    /\ \E width \in FormationWidths, cx \in FormationCentres, cy \in {5, 10},
          t \in FormationTypes :
         /\ StartsAs(FormationWorld(width, Formation_new(cx, cy, t)))
         /\ hist = [iter |-> 0, start |-> Formation_new(cx, cy, t),
                    right_reject |-> FALSE]
    /\ pc = "update"

\* The candidate centre of the next horizontal step of f
NextCenter(f) == AsI16(f.center_x) + f.direction_x

\* The next update of f performs a horizontal step
StepsNow(f) == (f.frame_counter + 1) % 4 = 0

\* The margins, for a centre x of a formation of the given shape
LeftEdgeOut(formation_type, x) == x + Formation_min_offset(formation_type) < 5

RightEdgeOut(formation_type, x, lane) ==
    x + Formation_max_offset(formation_type) > lane - 10

\* for formation in &mut self.formations { formation.update(game_area_width) }
FormationUpdate ==
    /\ formations[1].frame_counter < MaxUpdates
    /\ formations' = FormationStep(World).formations
    /\ hist' =
         LET f == formations[1]
             lane == game_area_width(World)
         IN  [hist EXCEPT
                !.iter = @ + 1,
                !.right_reject =
                    IF StepsNow(f) /\ LeftEdgeOut(f.formation_type, NextCenter(f))
                    THEN FALSE
                    ELSE IF StepsNow(f) /\ f.direction_x = 1
                            /\ RightEdgeOut(f.formation_type, NextCenter(f), lane)
                         THEN TRUE
                         ELSE @]
    /\ UNCHANGED <<running, game_state, player, enemies, projectiles, particles,
                   pickups, score, screen_width, screen_height, frame_count,
                   spawn_delay_frames, pc>>

NextFormation == FormationUpdate

SpecFormation == InitFormation /\ [][NextFormation]_vars

\* The next update of f rejects its horizontal step
Rejects(f, lane) ==
    /\ StepsNow(f)
    /\ \/ LeftEdgeOut(f.formation_type, NextCenter(f))
       \/ RightEdgeOut(f.formation_type, NextCenter(f), lane)

\* Both edges of f are inside the sweep margins of the lane
InsideMargins(f, lane) ==
    /\ ~LeftEdgeOut(f.formation_type, f.center_x)
    /\ ~RightEdgeOut(f.formation_type, f.center_x, lane)

\* C6: on an update that performs a horizontal step the direction is inverted
\* if and only if centre + direction puts the leftmost offset below 5 or the
\* rightmost above max_x - 10, and otherwise the centre moves by the direction,
\* which is kept; on every other update the direction is kept.
C6_InvertsIffOutsideMargins ==
    [][LET f == formations[1]
           g == formations'[1]
           lane == game_area_width(World)
       IN  IF StepsNow(f)
           THEN /\ (g.direction_x = -f.direction_x) <=> Rejects(f, lane)
                /\ ~Rejects(f, lane) =>
                      /\ g.center_x = NextCenter(f)
                      /\ g.direction_x = f.direction_x
           ELSE g.direction_x = f.direction_x]_vars

\* C6 witness: a formation that moved right from its start and was then turned
C6_Witness ==
    /\ hist.right_reject
    /\ formations[1].direction_x = -1
    /\ formations[1].center_x > hist.start.center_x

\* The V-shape of the boundary test: centre 70 in a lane of 80
IsBoundaryTest ==
    /\ hist.start.formation_type = "VShape"
    /\ hist.start.center_x = 70
    /\ game_area_width(World) = 80

\* C7 as claimed: once a step to the right was rejected at the right margin the
\* direction is -1 and stays -1 until a step is rejected at the left margin, and
\* the V-shape at centre 70 in a lane of 80 has direction -1 after every number
\* of updates from the first rejection on.
C7_Original ==
    [][LET f == formations[1]
           g == formations'[1]
       IN  /\ (hist.right_reject /\ f.direction_x = -1 /\ g.direction_x # -1)
                => (StepsNow(f) /\ LeftEdgeOut(f.formation_type, NextCenter(f)))
           /\ (IsBoundaryTest /\ g.frame_counter >= 4) => g.direction_x = -1]_vars

\* C7 amended: a step to the right rejected at the right margin leaves the
\* direction at -1, and the direction changes only on a rejected step (at either
\* margin); the V-shape at centre 70 in a lane of 80 has every step rejected, so
\* after n updates its direction is -1 exactly when n div 4 is odd (as it is
\* after the 100 updates of the test).
C7_StaysUntilNextRejection ==
    [][LET f == formations[1]
           g == formations'[1]
           lane == game_area_width(World)
       IN  /\ g.direction_x # f.direction_x => Rejects(f, lane)
           /\ (StepsNow(f) /\ f.direction_x = 1
                 /\ RightEdgeOut(f.formation_type, NextCenter(f), lane))
                => g.direction_x = -1
           /\ IsBoundaryTest =>
                 (g.direction_x = -1 <=> (g.frame_counter \div 4) % 2 = 1)]_vars

\* C7 witness: the boundary test's formation after its 100 updates
C7_Witness ==
    /\ IsBoundaryTest
    /\ formations[1].frame_counter = 100
    /\ formations[1].direction_x = -1
    /\ formations[1].center_x = 70

\* C19: after n updates of a formation created with frame counter 0 the centre
\* row is the initial one plus n div 8, and the centre column changes only on
\* an update whose counter is a multiple of 4, by one cell in the direction held
\* before the update; from (40, 10) in a lane of 80, four updates give column
\* 41 and eight updates give row 11.
C19_DescentAndSweepCadence ==
    [][LET f == formations[1]
           g == formations'[1]
           n == hist'.iter
       IN  /\ g.frame_counter = n
           /\ g.center_y = hist.start.center_y + n \div 8
           /\ g.center_x # f.center_x =>
                 /\ n % 4 = 0
                 /\ g.center_x = f.center_x + f.direction_x
           /\ (hist.start.center_x = 40 /\ hist.start.center_y = 10
                 /\ game_area_width(World) = 80) =>
                 /\ n = 4 => g.center_x = 41
                 /\ n = 8 => g.center_y = 11]_vars

\* C19 witness: the formation started at (40, 10) in a lane of 80 after eight
\* updates, one row lower and two columns to the right
C19_Witness ==
    /\ hist.start.center_x = 40 /\ hist.start.center_y = 10
    /\ game_area_width(World) = 80
    /\ hist.iter = 8
    /\ formations[1].frame_counter = 8
    /\ formations[1].center_y = 11
    /\ formations[1].center_x = 42

\* C8: an update never moves the centre to where an edge is outside the margins,
\* a formation inside the margins stays inside them (max_x constant), and a
\* V-shape started at centre 30..49 in a lane of 80 keeps its left edge >= 0 and
\* its right edge < 80.
C8_StaysInsideMargins ==
    [][LET f == formations[1]
           g == formations'[1]
           lane == game_area_width(World)
       IN  /\ g.center_x # f.center_x => InsideMargins(g, lane)
           /\ InsideMargins(f, lane) => InsideMargins(g, lane)
           /\ (hist.start.formation_type = "VShape"
                 /\ hist.start.center_x \in 30..49 /\ lane = 80)
                => (g.center_x + Formation_min_offset("VShape") >= 0
                    /\ g.center_x + Formation_max_offset("VShape") < 80)]_vars

\* C8 witness: a V-shape started inside the margins of a lane of 80 that was
\* turned at the right margin and has come back past its start
C8_Witness ==
    /\ hist.start.formation_type = "VShape"
    /\ hist.start.center_x \in 30..46
    /\ game_area_width(World) = 80
    /\ hist.right_reject
    /\ formations[1].direction_x = -1
    /\ formations[1].center_x < hist.start.center_x

--------------------------------------------------------------------------
(* SpecDamage: take_damage alone, on one entity (an enemy of each type as  *)
(* the tests create it, or the player).  hist holds the target, its health *)
(* before the first hit, the sum of the damages so far and the last one.   *)

MaxHits == 10

\* The damages of the program (5, 10, 20, 25) and the ends of the u8 range
DamageAmounts == {0, 5, 10, 20, 25, 255}

DamageWorld ==
    [running |-> TRUE, game_state |-> "Playing", player |-> Player_new(40, 20),
     enemies |-> << >>, formations |-> << >>, projectiles |-> << >>,
     particles |-> << >>, pickups |-> << >>, score |-> 0,
     screen_width |-> 200, screen_height |-> 70, frame_count |-> 0,
     spawn_delay_frames |-> 0]

InitDamage ==
    /\ \E target \in EnemyTypes \cup {"Player"} :
         LET es == IF target = "Player" THEN << >>
                   ELSE << Enemy_new_in_formation(20, 10, target, 0, <<0, 0>>) >>
         IN  /\ StartsAs([DamageWorld EXCEPT !.enemies = es])
             /\ hist = [iter |-> 0, target |-> target,
                        initial |-> IF target = "Player" THEN 100
                                    ELSE Enemy_initial_health(target),
                        dealt |-> 0, last |-> 0]
    /\ pc = "update"

\* enemy.take_damage(damage)
EnemyHit ==
    /\ hist.target # "Player"
    /\ hist.iter < MaxHits
    /\ \E damage \in DamageAmounts :
         /\ enemies' = << Enemy_take_damage(enemies[1], damage) >>
         /\ hist' = [hist EXCEPT !.iter = @ + 1, !.dealt = @ + damage,
                                 !.last = damage]
    /\ UNCHANGED <<running, game_state, player, formations, projectiles,
                   particles, pickups, score, screen_width, screen_height,
                   frame_count, spawn_delay_frames, pc>>

\* player.take_damage(damage)
PlayerHit ==
    /\ hist.target = "Player"
    /\ hist.iter < MaxHits
    /\ \E damage \in DamageAmounts :
         /\ player' = Player_take_damage(player, damage)
         /\ hist' = [hist EXCEPT !.iter = @ + 1, !.dealt = @ + damage,
                                 !.last = damage]
    /\ UNCHANGED <<running, game_state, enemies, formations, projectiles,
                   particles, pickups, score, screen_width, screen_height,
                   frame_count, spawn_delay_frames, pc>>

NextDamage == EnemyHit \/ PlayerHit

SpecDamage == InitDamage /\ [][NextDamage]_vars

\* The health of the target of SpecDamage
TargetHealth == IF hist.target = "Player" THEN player.health ELSE enemies[1].health

TargetAlive ==
    IF hist.target = "Player" THEN Player_is_alive(player)
    ELSE Enemy_is_alive(enemies[1])

\* C4: after any sequence of take_damage calls the health of a Player or Enemy
\* is max(0, initial health - sum of the damages): it never underflows and never
\* exceeds the initial health, and the entity is alive exactly while the damages
\* sum to less than its initial health.
C4_HealthIsInitialMinusDamage ==
    /\ TargetHealth = Max(0, hist.initial - hist.dealt)
    /\ TargetHealth \in 0..hist.initial
    /\ TargetAlive <=> hist.dealt < hist.initial

\* C4 witness: a Basic enemy (15 health) after its second hit of 10
C4_Witness ==
    /\ hist.target = "Basic"
    /\ hist.iter = 2 /\ hist.dealt = 20 /\ hist.last = 10
    /\ enemies[1].health = 0
    /\ ~Enemy_is_alive(enemies[1])

--------------------------------------------------------------------------
(* SpecPrune: the pruning step of check_collisions alone, on enemy and     *)
(* projectile collections of up to MaxLen elements and every mark list of  *)
(* up to MaxMarks indices (unsorted, with repetitions).  hist holds the    *)
(* collection before the step and the marks.                               *)

MaxLen == 4

MaxMarks == 3

\* The mark lists over the indices of a collection of n elements
MarkLists(n) == UNION {[1..k -> 0..(n - 1)] : k \in 0..MaxMarks}

\* n distinct enemies, as spawn_formation creates them
SomeEnemies(n) == SubSeq(App_new(3, 30, 0).enemies, 1, n)

\* n distinct projectiles
SomeProjectiles(n) == [i \in 1..n |-> Projectile_new(40 + i, 20, "Player")]

InitPrune ==
    /\ \E n \in 1..MaxLen, kind \in {"enemies", "projectiles"} :
         \E marks \in MarkLists(n) :
            /\ StartsAs([DamageWorld EXCEPT
                            !.enemies = IF kind = "enemies" THEN SomeEnemies(n)
                                        ELSE << >>,
                            !.projectiles = IF kind = "projectiles"
                                            THEN SomeProjectiles(n) ELSE << >>])
            /\ hist = [iter |-> 0, kind |-> kind, marks |-> marks,
                       before |-> IF kind = "enemies" THEN SomeEnemies(n)
                                  ELSE SomeProjectiles(n)]
    /\ pc = "update"

\* The enemy half of the removal in check_collisions
PruneEnemies ==
    /\ hist.kind = "enemies" /\ hist.iter = 0
    /\ enemies' = Prune(enemies, hist.marks)
    /\ hist' = [hist EXCEPT !.iter = 1]
    /\ UNCHANGED <<running, game_state, player, formations, projectiles,
                   particles, pickups, score, screen_width, screen_height,
                   frame_count, spawn_delay_frames, pc>>

\* The projectile half
PruneProjectiles ==
    /\ hist.kind = "projectiles" /\ hist.iter = 0
    /\ projectiles' = Prune(projectiles, hist.marks)
    /\ hist' = [hist EXCEPT !.iter = 1]
    /\ UNCHANGED <<running, game_state, player, enemies, formations,
                   particles, pickups, score, screen_width, screen_height,
                   frame_count, spawn_delay_frames, pc>>

NextPrune == PruneEnemies \/ PruneProjectiles

SpecPrune == InitPrune /\ [][NextPrune]_vars

\* s without the elements at the marked (0-based) indices, in order
RECURSIVE WithoutMarked(_, _, _)
WithoutMarked(s, marked, idx) ==
    IF idx >= Len(s) THEN << >>
    ELSE (IF idx \in marked THEN << >> ELSE <<s[idx + 1]>>)
         \o WithoutMarked(s, marked, idx + 1)

\* C5: after the pruning step the collection is the one before the step with
\* exactly the marked indices deleted, the survivors in their order, also when
\* an index was marked more than once.
C5_PruneDeletesExactlyMarked ==
    hist.iter = 1 =>
        LET marked == {hist.marks[i] : i \in 1..Len(hist.marks)}
            after == IF hist.kind = "enemies" THEN enemies ELSE projectiles
        IN  after = WithoutMarked(hist.before, marked, 0)

\* C5 witness: an index marked twice and another once, a survivor after them
C5_Witness ==
    /\ hist.iter = 1
    /\ hist.kind = "enemies"
    /\ hist.marks = <<1, 0, 1>>
    /\ Len(hist.before) = 4
    /\ enemies = SubSeq(hist.before, 3, 4)

--------------------------------------------------------------------------
(* SpecMarch: the App from App::new left alone (no input) in a terminal of *)
(* constant size, for MaxMarch iterations: the wave marches, turns at the  *)
(* margins, leaves a short screen and is followed by the next wave.  hist  *)
(* holds the terminal size and the number of consecutive ticks so far that *)
(* started with no enemy.  In the tall terminal the run ends after         *)
(* MarchTall iterations, before the wave fires in frame 120.               *)

MaxMarch == 140

MarchTall == 118

\* A terminal with a lane of 80 cells, and one of 10 rows with a lane of 98
MarchSizes == {<<182, 70>>, <<200, 10>>}

InitMarch ==
    /\ \E d \in SpawnDraws(0) : StartsAs(App_new(d.type_draw, d.center_x, d.enemy_draw))
    /\ pc = "poll"
    /\ \E size \in MarchSizes : hist = [iter |-> 0, size |-> size, empty_run |-> 0]

MarchLoopTop ==
    LoopTop({hist.size}, {<< >>},
            IF hist.size[2] >= 70 THEN MarchTall ELSE MaxMarch)

MarchTick ==
    /\ Update
    /\ hist' = [hist EXCEPT !.empty_run = IF enemies = << >> THEN @ + 1 ELSE 0]

NextMarch == MarchLoopTop \/ MarchTick

SpecMarch == InitMarch /\ [][NextMarch]_vars

\* The formation enemy e is bound to, as a sequence of zero or one formation
FormationOf(e) ==
    IF IsSome(e.formation_id) /\ Unwrap(e.formation_id) < Len(formations)
    THEN << formations[Unwrap(e.formation_id) + 1] >>
    ELSE << >>

\* C2: after every completed tick every enemy bound to a formation with offset
\* (dx, dy) stands at that formation's centre, as updated in the same tick, plus
\* (dx, dy), each coordinate clamped to be non-negative.
C2_EnemyFollowsFormation ==
    pc = "poll" =>
        \A i \in 1..Len(enemies) :
            LET e == enemies[i]
            IN  FormationOf(e) # << >> =>
                  LET f == FormationOf(e)[1]
                  IN  /\ e.x = Max(0, f.center_x + e.formation_offset[1])
                      /\ e.y = Max(0, f.center_y + e.formation_offset[2])

\* C2 witness: the tick in which the formation stepped both sideways and down
C2_Witness ==
    /\ pc = "poll"
    /\ Len(formations) = 1
    /\ formations[1].frame_counter = 8
    /\ formations[1].center_x = 32 /\ formations[1].center_y = 6
    /\ Len(enemies) >= 7
    /\ \A i \in 1..Len(enemies) : FormationOf(enemies[i]) # << >>
    /\ enemies[2].formation_offset[2] = 4 /\ enemies[2].y = 10

\* The step is an update_game
IsTick == pc = "update" /\ pc' = "poll" /\ game_state = "Playing"

\* The step created a wave: no formation and no enemy before, one after
WaveSpawned ==
    /\ enemies = << >> /\ enemies' # << >>
    /\ Len(formations') = 1 /\ formations'[1].frame_counter = 1

\* The step created nothing
NothingSpawned ==
    /\ Len(enemies') <= Len(enemies)
    /\ Len(formations') <= Len(formations)

\* C10: a tick that starts with an enemy sets the delay to 90 and spawns
\* nothing; a tick that starts with no enemy and a positive delay decrements the
\* delay and spawns nothing; a tick that starts with no enemy and delay 0 spawns
\* a wave and sets the delay to 90.  So a wave is spawned only on the 91st of
\* consecutive ticks that started with no enemy.
C10_SpawnAfterDelay ==
    [][IsTick =>
        /\ enemies # << >> =>
              spawn_delay_frames' = 90 /\ NothingSpawned
        /\ (enemies = << >> /\ spawn_delay_frames > 0) =>
              spawn_delay_frames' = spawn_delay_frames - 1 /\ NothingSpawned
        /\ (enemies = << >> /\ spawn_delay_frames = 0) =>
              spawn_delay_frames' = 90 /\ WaveSpawned /\ hist.empty_run = 90
        /\ ~NothingSpawned => hist.empty_run = 90]_vars

\* C10 witness: the wave created after 90 enemy-free ticks, just spawned
C10_Witness ==
    /\ pc = "poll"
    /\ hist.empty_run = 91
    /\ frame_count = 131
    /\ enemies # << >>
    /\ Len(formations) = 1 /\ formations[1].frame_counter = 1
    /\ spawn_delay_frames = 90

--------------------------------------------------------------------------
(* Scripted runs.  A frame is the input of one loop iteration: the action  *)
(* list and the random draws of its tick.  Replay runs the loop of App::run*)
(* over a sequence of frames, so that the starting states of the           *)
(* specifications below are states the App reaches.  A script is a         *)
(* sequence of action lists for the iterations that follow.                *)

\* The draws of a tick in which every random_bool comes out false
QuietDraws ==
    [type_draw |-> 0, center_x |-> 30, enemy_draw |-> 0, fire |-> {},
     pickup |-> FALSE, weapon_draw |-> 0, pickup_x |-> 3]

\* The draws of the App::new of a Restart, if the frame's actions hold one,
\* are the frame's restart field
Frame(actions, rnd) ==
    [actions |-> actions, rnd |-> rnd,
     restart |-> [type_draw |-> 0, center_x |-> 30, enemy_draw |-> 0]]

\* A frame whose tick draws nothing
Quiet(actions) == Frame(actions, QuietDraws)

\* A frame whose tick, if it is a pickup tick, spawns the given pickup
Dropping(actions, weapon_draw, x) ==
    Frame(actions, [QuietDraws EXCEPT !.pickup = TRUE,
                                      !.weapon_draw = weapon_draw,
                                      !.pickup_x = x])

\* The actions of keys held down
ContinuousActions == {"MoveLeft", "MoveRight", "MoveUp", "MoveDown", "Fire"}

\* What get_actions makes of a scripted list in a game state: the list is that
\* of the keys held down, and held keys give their actions only in Playing
HeldIn(state, actions) ==
    LET OneShot(a) == a \notin ContinuousActions
    IN  IF state = "Playing" THEN actions ELSE SelectSeq(actions, OneShot)

\* One iteration of the loop of App::run
Iterate(w, size, frame) ==
    LET v == process_actions(Resized(w, size), HeldIn(w.game_state, frame.actions),
                             frame.restart)
    IN  IF v.game_state = "Playing" THEN update_game(v, frame.rnd) ELSE v

\* Iterations first..last of a script, in order (split in halves), while
\* self.running
RECURSIVE ReplaySpan(_, _, _, _, _)
ReplaySpan(w, size, frames, first, last) ==
    IF first > last \/ ~w.running THEN w
    ELSE IF first = last THEN Iterate(w, size, frames[first])
    ELSE LET mid == (first + last) \div 2
         IN  ReplaySpan(ReplaySpan(w, size, frames, first, mid),
                        size, frames, mid + 1, last)

Replay(w, size, frames) == ReplaySpan(w, size, frames, 1, Len(frames))

\* k times the same frame or action list
Times(x, k) == [i \in 1..k |-> x]

\* The action list of iteration i of a script; none after its end
ListAt(script, i) == IF i <= Len(script) THEN script[i] ELSE << >>

\* Top of the loop under the script held in hist
ScriptedLoopTop(size, max_iter) ==
    LoopTop({size}, {HeldIn(game_state, ListAt(hist.script, hist.iter + 1))},
            max_iter)

--------------------------------------------------------------------------
(* SpecVolley: the first wave in a 200x70 terminal, attacked with the      *)
(* basic gun.  After a lead of idle iterations the player fires, climbs    *)
(* nine rows behind the bullet and, on the tenth, climbs and (in half of   *)
(* the scripts) fires again, which puts both bullets in one cell.          *)

MaxVolley == 40

VolleySize == <<200, 70>>

\* Idle iterations before the first shot
VolleyLeads == {60, 76}

VolleyScript(second) ==
    << <<"Fire">> >> \o Times(<<"MoveUp">>, 9)
       \o << IF second THEN <<"MoveUp", "Fire">> ELSE <<"MoveUp">> >>

InitVolley ==
    /\ \E d \in SpawnDraws(0), lead \in VolleyLeads, second \in BOOLEAN :
         /\ StartsAs(Replay(App_new(d.type_draw, d.center_x, d.enemy_draw),
                            VolleySize, Times(Quiet(<< >>), lead)))
         /\ hist = [iter |-> 0, script |-> VolleyScript(second)]
    /\ pc = "poll"

VolleyLoopTop == ScriptedLoopTop(VolleySize, MaxVolley)

NextVolley == VolleyLoopTop \/ Tick

SpecVolley == InitVolley /\ [][NextVolley]_vars

\* The enemies of this state that the next state no longer holds.  Within a
\* wave the formation offset identifies the enemy.
GoneEnemies ==
    {i \in 1..Len(enemies) :
        \A j \in 1..Len(enemies') :
            enemies'[j].formation_offset # enemies[i].formation_offset}

\* The points of the enemies that the step removed, each counted once
PointsGone ==
    SumSeq([i \in 1..Len(enemies) |->
               IF i \in GoneEnemies THEN Enemy_get_points(enemies[i]) ELSE 0])

\* No enemy can leave the screen or reach the player in the step: an enemy the
\* step removes was killed by a player projectile
OnlyKills ==
    \A i \in 1..Len(enemies) :
        /\ enemies[i].y + 1 < screen_height
        /\ enemies[i].y + Enemy_get_height(enemies[i]) + 1 < player.y

\* C3 as stated: in every tick the score grows by the sum of the points of the
\* distinct enemies that died in it, each enemy awarded exactly once, also when
\* several player projectiles overlap the same enemy.
C3_Original ==
    [][(IsTick /\ OnlyKills) => score' = score + PointsGone]_vars

--------------------------------------------------------------------------
(* SpecPickup: the ticks around a pickup spawn in a 200x70 terminal.  The  *)
(* player has climbed to the rows where pickups appear; in one family of   *)
(* starting states the next tick but one is the first pickup tick (frame   *)
(* 180), in the other an earlier pickup is still falling beside the player *)
(* and the second pickup tick (frame 360) follows.  hist holds the draws   *)
(* of the last tick and the weapon the player had when it began.           *)

MaxPickup == 3

PickupSize == <<200, 70>>

\* The player climbs for `climb` frames and waits for frame 179
FirstDrop(climb) ==
    Times(Quiet(<<"MoveUp">>), climb)
        \o Times(Quiet(<< >>), PICKUP_PERIOD - 2 - climb)

\* The player climbs to row 3, steps left of column 82, lets the pickup of
\* frame 180 fall there, follows it down to row 14 and waits for frame 359
SecondDrop ==
    Times(Quiet(<<"MoveUp">>), 53) \o Times(Quiet(<<"MoveLeft">>), 3)
        \o Times(Quiet(<< >>), PICKUP_PERIOD - 1 - 56)
        \o << Dropping(<< >>, 1, 82) >>
        \o Times(Quiet(<<"MoveDown">>), 11)
        \o Times(Quiet(<< >>), 2 * PICKUP_PERIOD - 2 - (PICKUP_PERIOD + 11))

PickupPrefixes == {FirstDrop(climb) : climb \in 52..54} \cup {SecondDrop}

\* The action lists of a frame of SpecPickup
PickupLists == {<< >>, <<"MoveLeft">>, <<"MoveRight">>, <<"MoveUp">>, <<"MoveDown">>}

InitPickup ==
    /\ \E d \in {[type_draw |-> 0, center_x |-> 30, enemy_draw |-> 0],
                 [type_draw |-> 3, center_x |-> 30, enemy_draw |-> 9]},
          frames \in PickupPrefixes :
         StartsAs(Replay(App_new(d.type_draw, d.center_x, d.enemy_draw),
                         PickupSize, frames))
    /\ hist = [iter |-> 0, rnd |-> QuietDraws, weapon |-> "BasicGun"]
    /\ pc = "poll"

PickupLoopTop == LoopTop({PickupSize}, PickupLists, MaxPickup)

\* update_game, the draws of the tick kept in hist
PickupTick ==
    /\ pc = "update"
    /\ game_state = "Playing"
    /\ \E rnd \in TickDraws(World) :
         /\ Becomes(update_game(World, rnd))
         /\ hist' = [hist EXCEPT !.rnd = rnd, !.weapon = player.current_weapon]
    /\ pc' = "poll"

NextPickup == PickupLoopTop \/ PickupTick

SpecPickup == InitPickup /\ [][NextPickup]_vars

\* The cells of the player's box and of a pickup's (one cell)
PlayerCells(p) == (p.x .. p.x + 4) \X (p.y .. p.y + 2)

PickupCells(k) == {<<k.x, k.y>>}

\* The pickups as the collision pass of the step finds them, and the 0-based
\* indices of those that overlap the player
PickupsFound == BeforeCollisions(World, hist'.rnd).pickups

PickupsTouched ==
    {i \in 0..(Len(PickupsFound) - 1) :
        PickupCells(PickupsFound[i + 1]) \cap PlayerCells(player) # {}}

\* C9: in a tick whose collision pass finds pickups overlapping the player's
\* box, the player ends the tick equipped with the payload of such a pickup and
\* those pickups are gone from the collection; the pickups that do not overlap
\* stay, in order, and without an overlap the weapon does not change.
C9_PickupEquipsAndVanishes ==
    [][IsTick =>
        /\ pickups' = WithoutMarked(PickupsFound, PickupsTouched, 0)
        /\ PickupsTouched # {} =>
              \E i \in PickupsTouched :
                 player'.current_weapon = PickupsFound[i + 1].weapon_type
        /\ PickupsTouched = {} =>
              player'.current_weapon = player.current_weapon]_vars

\* C9 witness: the player took the older of two pickups and changed weapon; the
\* younger one, spawned in that tick, stays
C9_Witness ==
    /\ pc = "poll"
    /\ frame_count = 2 * PICKUP_PERIOD
    /\ hist.weapon = "BasicGun"
    /\ player.current_weapon = "Sword"
    /\ Len(pickups) = 1
    /\ pickups[1].frame_counter = 1
    /\ pickups[1].weapon_type = "Bomber"

--------------------------------------------------------------------------
(* SpecBomb: a bomb fired under the first wave in a 200x120 terminal.  The *)
(* player climbs to row 3, takes the Bomber pickup of frame 180 there,     *)
(* descends 98 rows on the right of the wave, the last of them sideways as *)
(* well, and fires at frame 279; the bomb's lifetime runs out at frame 368,*)
(* below the right end of the wave.                                        *)

MaxBomb == 92

BombSize == <<200, 120>>

\* Sideways steps of the player before the shot (negative: to the left): the
\* bomb ends beside the last enemy of the right arm, under it, or far from it
BombShifts == {-9, -4, 10}

\* `rows` frames of MoveDown, the last |shift| of them with a sideways move
Descent(rows, shift) ==
    Times(Quiet(<<"MoveDown">>), rows - Abs(shift))
        \o Times(Quiet(<<IF shift < 0 THEN "MoveLeft" ELSE "MoveRight",
                         "MoveDown">>),
                 Abs(shift))

BombFrames(shift) ==
    Times(Quiet(<<"MoveUp">>), 53)
        \o Times(Quiet(<< >>), PICKUP_PERIOD - 1 - 53)
        \o << Dropping(<< >>, 3, 82) >>
        \o Descent(98, shift)

InitBomb ==
    /\ \E d \in SpawnDraws(0), shift \in BombShifts :
         StartsAs(Replay(App_new(d.type_draw, d.center_x, d.enemy_draw),
                         BombSize, BombFrames(shift)))
    /\ hist = [iter |-> 0, script |-> << <<"Fire">> >>]
    /\ pc = "poll"

BombLoopTop == ScriptedLoopTop(BombSize, MaxBomb)

NextBomb == BombLoopTop \/ Tick

SpecBomb == InitBomb /\ [][NextBomb]_vars

\* The player's bombs whose lifetime reaches zero in the next update
ExpiringBombs ==
    {i \in 1..Len(projectiles) :
        /\ projectiles[i].owner = "Player"
        /\ projectiles[i].projectile_type = "BomberProjectile"
        /\ projectiles[i].lifetime = Some(1)}

\* The centre of enemy e lies within the explosion radius of cell (x, y)
CentreWithin(e, x, y) ==
    LET dx == x - (e.x + Enemy_get_width(e) \div 2)
        dy == y - (e.y + Enemy_get_height(e) \div 2)
    IN  dx * dx + dy * dy <= EXPLOSION_RADIUS * EXPLOSION_RADIUS

\* The health, before the step, of the enemy at a formation offset
HealthBefore(offset) ==
    LET k == CHOOSE k \in 1..Len(enemies) : enemies[k].formation_offset = offset
    IN  enemies[k].health

\* C1 as stated: in the tick in which the lifetime of a player's bomb reaches
\* zero, every enemy whose centre lies within the explosion radius of the
\* bomb's position takes the area damage, and the bomb is removed.
C1_Original ==
    [][IsTick =>
        \A i \in ExpiringBombs :
            LET bomb == Projectile_update(projectiles[i])
            IN  /\ \A j \in 1..Len(projectiles') :
                      ~(/\ projectiles'[j].owner = "Player"
                        /\ projectiles'[j].projectile_type = "BomberProjectile"
                        /\ projectiles'[j].lifetime = Some(0))
                /\ \A j \in 1..Len(enemies') :
                      CentreWithin(enemies'[j], bomb.x, bomb.y) =>
                          enemies'[j].health + EXPLOSION_DAMAGE
                              <= HealthBefore(enemies'[j].formation_offset)]_vars

--------------------------------------------------------------------------
(* SpecRam: the player flies into the first wave in a 200x70 terminal.     *)
(* After 30 frames of moving left and up the player is at (50, 26), just   *)
(* below the wave; from there every frame holds no key, left, up, or both, *)
(* or restarts.  Enemies that touch the player ram it; the game ends when  *)
(* the health is used up, and then only a restart is accepted.  hist holds *)
(* the actions of the last frame and the player's health before them.      *)

MaxRam == 10

RamSize == <<200, 70>>

\* The action lists of a frame of SpecRam, as get_actions orders them; held
\* keys count only while Playing
RamLists ==
    IF game_state = "Playing"
    THEN {<< >>, <<"MoveLeft">>, <<"MoveUp">>, <<"MoveLeft", "MoveUp">>,
          <<"Restart">>}
    ELSE {<< >>, <<"Restart">>}

InitRam ==
    /\ \E d \in SpawnDraws(0) :
         StartsAs(Replay(App_new(d.type_draw, d.center_x, d.enemy_draw), RamSize,
                         Times(Quiet(<<"MoveLeft", "MoveUp">>), 30)))
    /\ hist = [iter |-> 0, actions |-> << >>, health |-> 100]
    /\ pc = "poll"

\* Top of the loop, the frame's actions and the health before them kept in hist
RamLoopTop ==
    /\ pc = "poll"
    /\ running
    /\ hist.iter < MaxRam
    /\ \E actions \in RamLists :
         \E restart \in (IF actions = <<"Restart">> THEN SpawnDraws(0)
                         ELSE {[type_draw |-> 0, center_x |-> 30,
                                enemy_draw |-> 0]}) :
            /\ Becomes(process_actions(Resized(World, RamSize), actions, restart))
            /\ hist' = [iter |-> hist.iter + 1, actions |-> actions,
                        health |-> player.health]
    /\ pc' = "update"

NextRam == RamLoopTop \/ Tick \/ SkipUpdate

SpecRam == InitRam /\ [][NextRam]_vars

\* C11: the player's health is always in 0..100, and a step raises it only if
\* it is the processing of a Restart action, which sets it to 100.
C11_HealthOnlyFalls ==
    [][/\ player.health \in 0..100
       /\ player'.health \in 0..100
       /\ player'.health > player.health =>
             /\ pc = "poll"
             /\ hist'.actions = <<"Restart">>
             /\ player'.health = 100]_vars

\* C11 witness: a restart has just put a damaged player back to 100
C11_Witness ==
    /\ pc = "update"
    /\ hist.actions = <<"Restart">>
    /\ hist.health \in 1..99
    /\ player.health = 100

\* C16: a tick ends in GameOver exactly if it ends with the player's health at
\* zero, so the state becomes GameOver at the end of the tick in which the
\* health reaches zero and no tick sets GameOver with health above zero; no
\* other step sets GameOver.
C16_GameOverWhenHealthZero ==
    [][/\ IsTick => (game_state' = "GameOver" <=> player'.health = 0)
       /\ (game_state # "GameOver" /\ game_state' = "GameOver") =>
             IsTick /\ player.health > 0 /\ player'.health = 0]_vars

\* C16 witness: the game has just ended, the last rams took the last health
C16_Witness ==
    /\ pc = "poll"
    /\ game_state = "GameOver"
    /\ player.health = 0
    /\ hist.health > 0

\* The lane of the current terminal
LaneWidth == game_area_width(World)

\* C12 as stated: once the terminal size has been read, the player's position
\* is within the playfield: x <= lane_width - player_width - 1 and
\* 2 <= y <= screen_height - player_height - 1.
C12_Original ==
    hist.iter >= 1 =>
        /\ player.x <= LaneWidth - Player_get_width - 1
        /\ 2 <= player.y
        /\ player.y <= screen_height - Player_get_height - 1

--------------------------------------------------------------------------
(* SpecMove: the four move methods of Player alone, with fixed limits.     *)
(* hist holds the limits and the last call.                                *)

MaxMoves == 6

MaxCoord == 4

\* The pairs of limits <<min, max>> with min <= max <= MaxCoord
Limits == {l \in (0..2) \X (0..MaxCoord) : l[1] <= l[2]}

InitMove ==
    /\ \E lx \in Limits, ly \in Limits :
         \E x \in lx[1]..lx[2], y \in ly[1]..ly[2] :
            /\ StartsAs([DamageWorld EXCEPT !.player = Player_new(x, y)])
            /\ hist = [iter |-> 0, min_x |-> lx[1], max_x |-> lx[2],
                       min_y |-> ly[1], max_y |-> ly[2], last |-> "none"]
    /\ pc = "update"

\* One call of a move method: the player becomes p
MoveCall(name, p) ==
    /\ hist.iter < MaxMoves
    /\ player' = p
    /\ hist' = [hist EXCEPT !.iter = @ + 1, !.last = name]
    /\ UNCHANGED <<running, game_state, enemies, formations, projectiles,
                   particles, pickups, score, screen_width, screen_height,
                   frame_count, spawn_delay_frames, pc>>

MoveLeftCall == MoveCall("move_left", Player_move_left(player, hist.min_x))

MoveRightCall == MoveCall("move_right", Player_move_right(player, hist.max_x))

MoveUpCall == MoveCall("move_up", Player_move_up(player, hist.min_y))

MoveDownCall == MoveCall("move_down", Player_move_down(player, hist.max_y))

NextMove == MoveLeftCall \/ MoveRightCall \/ MoveUpCall \/ MoveDownCall

SpecMove == InitMove /\ [][NextMove]_vars

\* The coordinate after a call that steps by `step` towards `limit`
Stepped(v, step, limit) == IF v = limit THEN v ELSE v + step

\* C13: under any sequence of move calls with fixed limits a player that starts
\* within the limits stays within them; a call moves its coordinate by exactly
\* one cell, or not at all at the limit, and leaves the other coordinate alone.
C13_MovesStayWithinLimits ==
    [][/\ player'.x \in hist.min_x..hist.max_x
       /\ player'.y \in hist.min_y..hist.max_y
       /\ hist'.last = "move_left" =>
             player'.x = Stepped(player.x, -1, hist.min_x) /\ player'.y = player.y
       /\ hist'.last = "move_right" =>
             player'.x = Stepped(player.x, 1, hist.max_x) /\ player'.y = player.y
       /\ hist'.last = "move_up" =>
             player'.y = Stepped(player.y, -1, hist.min_y) /\ player'.x = player.x
       /\ hist'.last = "move_down" =>
             player'.y = Stepped(player.y, 1, hist.max_y) /\ player'.x = player.x]_vars

\* C13 witness: a move_right refused at the right limit after real steps
C13_Witness ==
    /\ hist.last = "move_right"
    /\ hist.iter = MaxMoves
    /\ hist.min_x = 0 /\ hist.max_x = 3
    /\ player.x = 3

--------------------------------------------------------------------------
(* SpecFire: fire attempts in the App.  The player has climbed to row 3    *)
(* and taken, in frame 180, a pickup of any of the four weapons; from then *)
(* on each frame holds the fire key or not.  hist holds the actions of the *)
(* last frame, the number of successful fires and the ticks since the last.*)

MaxFire == 36

FireSize == <<200, 70>>

FireFrames(weapon_draw) ==
    Times(Quiet(<<"MoveUp">>), 53)
        \o Times(Quiet(<< >>), PICKUP_PERIOD - 1 - 53)
        \o << Dropping(<< >>, weapon_draw, 82) >>

InitFire ==
    /\ \E weapon_draw \in 0..3 :
         StartsAs(Replay(App_new(0, 30, 0), FireSize, FireFrames(weapon_draw)))
    /\ hist = [iter |-> 0, actions |-> << >>, fires |-> 0, since |-> 0]
    /\ pc = "poll"

\* Top of the loop; a fire is successful when it adds projectiles
FireLoopTop ==
    /\ pc = "poll"
    /\ running
    /\ hist.iter < MaxFire
    /\ \E actions \in {<< >>, <<"Fire">>} :
         LET v == process_actions(Resized(World, FireSize), actions,
                                  [type_draw |-> 0, center_x |-> 30,
                                   enemy_draw |-> 0])
             fired == Len(v.projectiles) > Len(projectiles)
         IN  /\ Becomes(v)
             /\ hist' = [iter |-> hist.iter + 1, actions |-> actions,
                         fires |-> IF fired THEN hist.fires + 1 ELSE hist.fires,
                         since |-> IF fired THEN 0 ELSE hist.since]
    /\ pc' = "update"

FireTick ==
    /\ Update
    /\ hist' = [hist EXCEPT !.since = @ + 1]

NextFire == FireLoopTop \/ FireTick

SpecFire == InitFire /\ [][NextFire]_vars

\* The period of a weapon
WeaponPeriod(weapon) ==
    CASE weapon = "BasicGun" -> 10
      [] weapon = "Sword" -> 8
      [] weapon = "Bug" -> 10
      [] weapon = "Bomber" -> 30

\* The step processes a Fire action
IsFireAttempt == pc = "poll" /\ pc' = "update" /\ hist'.actions = <<"Fire">>

\* C14: a fire attempt with cooldown zero adds projectiles and sets the cooldown
\* to the weapon's period; with a cooldown above zero it adds nothing and
\* changes nothing.  Two successful fires are at least a period of ticks apart,
\* and once a period of ticks has passed since a fire the cooldown is zero, so
\* the next attempt succeeds.
C14_FireRateLimited ==
    [][/\ (IsFireAttempt /\ player.fire_cooldown = 0) =>
             /\ Len(projectiles') > Len(projectiles)
             /\ player'.fire_cooldown = WeaponPeriod(player.current_weapon)
             /\ hist.fires >= 1 => hist.since >= WeaponPeriod(player.current_weapon)
       /\ (IsFireAttempt /\ player.fire_cooldown > 0) =>
             /\ projectiles' = projectiles
             /\ player' = player
       /\ (hist'.fires >= 1 /\ hist'.since >= WeaponPeriod(player'.current_weapon)) =>
             player'.fire_cooldown = 0
       /\ (hist'.fires >= 1 /\ hist'.since < WeaponPeriod(player'.current_weapon)) =>
             player'.fire_cooldown > 0]_vars

\* C14 witness: the second bomb, fired thirty ticks after the first
C14_Witness ==
    /\ pc = "update"
    /\ player.current_weapon = "Bomber"
    /\ hist.actions = <<"Fire">>
    /\ hist.fires = 2
    /\ hist.since = 0
    /\ hist.iter = 31
    /\ player.fire_cooldown = 30

--------------------------------------------------------------------------
(* SpecLife: projectiles with a lifetime in a 200x120 terminal.  The       *)
(* player takes the Sword or the Bomber in frame 180 and descends to row   *)
(* 80; on the way, in frame 240, the seven enemies of the wave fire their  *)
(* projectiles, which have no lifetime.  From frame 257 on the fire key is *)
(* free during the first FireWindow frames, and the run goes on until a    *)
(* bomb of the window has expired; it ends before the draws of frame 360.  *)
(* hist holds the frame and lifetime of each shot, and the lifetimes in    *)
(* the collection before the last tick.                                    *)

MaxLife == 100

FireWindow == 10

LifeSize == <<200, 120>>

LifeFrames(weapon_draw, shift) ==
    Times(Quiet(<<"MoveUp">>), 53)
        \o Times(Quiet(<< >>), PICKUP_PERIOD - 1 - 53)
        \o << Dropping(<< >>, weapon_draw, 82) >>
        \o Times(Quiet(<<"MoveDown">>), 59)
        \o << Frame(<<"MoveDown">>, [QuietDraws EXCEPT !.fire = 0..6]) >>
        \o Descent(17, shift)

\* The lifetime counters in a collection
Lifetimes(ps) ==
    {Unwrap(ps[i].lifetime) : i \in {k \in 1..Len(ps) : IsSome(ps[k].lifetime)}}

InitLife ==
    /\ \E weapon_draw \in {1, 3}, shift \in {-4, 10} :
         StartsAs(Replay(App_new(0, 30, 0), LifeSize, LifeFrames(weapon_draw, shift)))
    /\ hist = [iter |-> 0, fired |-> {}, before |-> {}]
    /\ pc = "poll"

LifeLoopTop ==
    /\ pc = "poll"
    /\ running
    /\ hist.iter < MaxLife
    /\ \E actions \in (IF hist.iter < FireWindow THEN {<< >>, <<"Fire">>}
                       ELSE {<< >>}) :
         LET v == process_actions(Resized(World, LifeSize), actions,
                                  [type_draw |-> 0, center_x |-> 30,
                                   enemy_draw |-> 0])
             shots == SubSeq(v.projectiles, Len(projectiles) + 1,
                             Len(v.projectiles))
         IN  /\ Becomes(v)
             /\ hist' = [hist EXCEPT
                           !.iter = @ + 1,
                           !.fired = @ \cup {[at |-> hist.iter + 1, lifetime |-> l] :
                                               l \in Lifetimes(shots)}]
    /\ pc' = "update"

LifeTick ==
    /\ Update
    /\ hist' = [hist EXCEPT !.before = Lifetimes(projectiles)]

NextLife == LifeLoopTop \/ LifeTick

SpecLife == InitLife /\ [][NextLife]_vars

\* The cell (x, y) is in the playfield as the retain of update_game sees it
CellInPlayfield(x, y) == y # 0 /\ y < screen_height /\ x < LaneWidth

\* C15: a lifetime counter falls by exactly one per tick and never below zero;
\* the projectile is gone from the collection after the tick that brings the
\* counter to zero, the L-th after a creation with lifetime L, and it is there
\* until then unless it left the playfield or hit an enemy.  A projectile
\* without lifetime that stays in the playfield and hits nothing is kept.
C15_LifetimeRunsOut ==
    [][IsTick =>
        /\ \A j \in 1..Len(projectiles') :
              LET q == projectiles'[j]
              IN  IsSome(q.lifetime) =>
                    /\ Unwrap(q.lifetime) >= 1
                    /\ \E i \in 1..Len(projectiles) :
                          /\ projectiles[i].lifetime = Some(Unwrap(q.lifetime) + 1)
                          /\ projectiles[i].projectile_type = q.projectile_type
                    /\ \E f \in hist.fired :
                          Unwrap(q.lifetime) = f.lifetime - (hist.iter - f.at + 1)
        /\ \A i \in 1..Len(projectiles) :
              LET p == projectiles[i]
                  y == IF p.projectile_type = "BomberProjectile"
                          /\ (Unwrap(p.lifetime) - 1) % 3 # 0
                       THEN p.y ELSE p.y - 1
              IN  (/\ IsSome(p.lifetime) /\ Unwrap(p.lifetime) >= 2
                   /\ CellInPlayfield(p.x, y)
                   /\ Len(enemies') = Len(enemies)
                   /\ \A k \in 1..Len(enemies') :
                         ~CellInBox(p.x, y, enemies'[k].x, enemies'[k].y,
                                    Enemy_get_width(enemies'[k]),
                                    Enemy_get_height(enemies'[k])))
                  => \E j \in 1..Len(projectiles') :
                        projectiles'[j] = [p EXCEPT !.y = y,
                                                    !.lifetime = Some(Unwrap(@) - 1)]
        /\ \A i \in 1..Len(projectiles) :
              LET p == projectiles[i]
              IN  (/\ p.lifetime = None /\ p.owner = "Enemy"
                   /\ CellInPlayfield(p.x, p.y + 1)
                   /\ ~CellInBox(p.x, p.y + 1, player.x, player.y,
                                 Player_get_width, Player_get_height))
                  => \E j \in 1..Len(projectiles') :
                        projectiles'[j] = [p EXCEPT !.y = @ + 1]]_vars

\* C15 witness: a bomb fired with lifetime 90 in the first frame was in the
\* collection with counter 1 before the 90th tick and is gone after it
C15_Witness ==
    /\ pc = "poll"
    /\ hist.iter = 90
    /\ [at |-> 1, lifetime |-> 90] \in hist.fired
    /\ 1 \in hist.before
    /\ Lifetimes(projectiles) = {}

--------------------------------------------------------------------------
(* SpecHit: one pass of check_collisions over a small world.  Up to three  *)
(* enemies, two of them with boxes that share a row as in a Block or Wall  *)
(* of Tank or Fast enemies, in any storage order, and up to MaxShots       *)
(* projectiles of the player (bullets, and bombs still in flight) in cells *)
(* inside one box, inside two, or outside all.  hist holds the enemies and *)
(* projectiles before the pass.                                            *)

MaxShots == 3

\* A Tank in rows 10..14, a Fast in rows 14..18 of the same columns, a Basic apart
HitEnemies ==
    {Enemy_new_in_formation(10, 10, "Tank", 0, <<0, 0>>),
     Enemy_new_in_formation(10, 14, "Fast", 0, <<0, 4>>),
     Enemy_new_in_formation(30, 10, "Basic", 0, <<20, 0>>)}

HitCells == {<<12, 10>>, <<12, 14>>, <<12, 18>>, <<31, 11>>, <<60, 40>>}

HitShots ==
    {Projectile_new(c[1], c[2], "Player") : c \in HitCells}
        \cup {Projectile_new_with_damage(c[1], c[2], "Player", "BomberProjectile",
                                         0, Some(7), 5) : c \in HitCells}

\* The sequences of 1..n distinct elements of S
Lineups(S, n) ==
    {s \in UNION {[1..k -> S] : k \in 1..n} :
        \A i, j \in 1..Len(s) : i # j => s[i] # s[j]}

InitHit ==
    /\ \E es \in Lineups(HitEnemies, 3),
          ps \in UNION {[1..k -> HitShots] : k \in 0..MaxShots} :
         /\ StartsAs([DamageWorld EXCEPT !.enemies = es, !.projectiles = ps])
         /\ hist = [iter |-> 0, enemies |-> es, projectiles |-> ps]
    /\ pc = "update"

HitPass ==
    /\ hist.iter = 0
    /\ Becomes(check_collisions(World))
    /\ hist' = [hist EXCEPT !.iter = 1]
    /\ UNCHANGED pc

NextHit == HitPass

SpecHit == InitHit /\ [][NextHit]_vars

\* The enemies (positions in storage order) whose box holds the cell of shot i
Struck(i) ==
    {k \in 1..Len(enemies) :
        /\ projectiles[i].x >= enemies[k].x
        /\ projectiles[i].x < enemies[k].x + Enemy_get_width(enemies[k])
        /\ projectiles[i].y >= enemies[k].y
        /\ projectiles[i].y < enemies[k].y + Enemy_get_height(enemies[k])}

\* The damage enemy k is due from shots i.. : that of the shots it is the first
\* in storage order to hold
RECURSIVE DamageDue(_, _)
DamageDue(k, i) ==
    IF i > Len(projectiles) THEN 0
    ELSE (IF Struck(i) # {} /\ MinOf(Struck(i)) = k THEN projectiles[i].damage
          ELSE 0) + DamageDue(k, i + 1)

\* Position and health of the enemies of es
Standing(es) == [k \in 1..Len(es) |-> <<es[k].x, es[k].y, es[k].health>>]

\* C17: in a collision pass each projectile of the player that is not exploding
\* damages only the first enemy in storage order whose box holds its cell and
\* is removed; a projectile in no box damages nothing and stays.
C17_FirstEnemyAbsorbs ==
    [][hist.iter = 0 =>
        LET left(k) == Max(0, enemies[k].health - DamageDue(k, 1))
            dead == {k - 1 : k \in {j \in 1..Len(enemies) : left(j) = 0}}
            after == [k \in 1..Len(enemies) |->
                        <<enemies[k].x, enemies[k].y, left(k)>>]
            absorbed == {i - 1 : i \in {j \in 1..Len(projectiles) : Struck(j) # {}}}
        IN  /\ Standing(enemies') = WithoutMarked(after, dead, 0)
            /\ projectiles' = WithoutMarked(projectiles, absorbed, 0)]_vars

\* C17 witness: a bullet in the row shared by the Tank and the Fast enemy, the
\* Tank stored first: the Tank took the ten points, the Fast enemy none, the
\* bullet is gone and the bullet in no box is still there
C17_Witness ==
    /\ hist.iter = 1
    /\ Standing(hist.enemies) = << <<10, 10, 30>>, <<10, 14, 10>> >>
    /\ hist.projectiles = << Projectile_new(12, 14, "Player"),
                             Projectile_new(60, 40, "Player") >>
    /\ Standing(enemies) = << <<10, 10, 20>>, <<10, 14, 10>> >>
    /\ projectiles = << Projectile_new(60, 40, "Player") >>

--------------------------------------------------------------------------
(* SpecSpawn: one call of spawn_formation on an App without enemies, as in *)
(* App::new and in the respawn of update_game, for every draw of the shape *)
(* and the enemy type and every centre the lane allows.  hist holds the    *)
(* draws of the call.                                                      *)

\* Terminal widths: the lane of App::new (none), a narrow one, a wide one
SpawnWidths == {60, 140, 200}

InitSpawn ==
    /\ \E width \in SpawnWidths :
         StartsAs([DamageWorld EXCEPT !.screen_width = width])
    /\ hist = [iter |-> 0, type_draw |-> 0, center_x |-> 0, enemy_draw |-> 0]
    /\ pc = "update"

SpawnCall ==
    /\ hist.iter = 0
    /\ \E type_draw \in 0..3, center_x \in FormationCenterRange(LaneWidth),
          enemy_draw \in 0..9 :
         /\ Becomes(spawn_formation(World, type_draw, center_x, enemy_draw))
         /\ hist' = [iter |-> 1, type_draw |-> type_draw, center_x |-> center_x,
                     enemy_draw |-> enemy_draw]
    /\ UNCHANGED pc

NextSpawn == SpawnCall

SpecSpawn == InitSpawn /\ [][NextSpawn]_vars

\* The number of offsets of a shape
ShapeSize(formation_type) ==
    CASE formation_type = "VShape" -> 7
      [] formation_type = "Diamond" -> 9
      [] formation_type = "Wall" -> 14
      [] formation_type = "Block" -> 16

\* C18: spawn_formation pushes one formation and one enemy per offset of its
\* shape table, all of one type at full health, bound to the index of the new
\* formation, at max(0, centre + offset), and the member list of the formation
\* is the list of the indices of the new enemies.
C18_SpawnBuildsFormation ==
    [][hist.iter = 0 =>
        LET formation_id == Len(formations)
            first_idx == Len(enemies)
            f == formations'[formation_id + 1]
            offsets == Formation_get_positions(f.formation_type)
            n == ShapeSize(f.formation_type)
        IN  /\ Len(formations') = formation_id + 1
            /\ f.formation_type = FormationTypeOfDraw(hist'.type_draw)
            /\ f.center_x = hist'.center_x /\ f.center_y = 5
            /\ Len(offsets) = n
            /\ Len(enemies') = first_idx + n
            /\ \A i \in 1..n :
                  LET e == enemies'[first_idx + i]
                  IN  /\ e.enemy_type = enemies'[first_idx + 1].enemy_type
                      /\ e.enemy_type = EnemyTypeOfDraw(hist'.enemy_draw)
                      /\ e.health = Enemy_initial_health(e.enemy_type)
                      /\ e.formation_id = Some(formation_id)
                      /\ e.formation_offset = offsets[i]
                      /\ e.x = Max(0, f.center_x + offsets[i][1])
                      /\ e.y = Max(0, f.center_y + offsets[i][2])
            /\ f.enemy_indices = [i \in 1..n |-> first_idx + i - 1]]_vars

\* C18 witness: a Block of sixteen Tanks spawned at the right end of the centre
\* range of the wide lane
C18_Witness ==
    /\ hist.iter = 1
    /\ screen_width = 200
    /\ hist.center_x = 67
    /\ Len(enemies) = 16
    /\ enemies[16].enemy_type = "Tank"
    /\ enemies[16].health = 30
    /\ Len(formations) = 1
    /\ formations[1].enemy_indices[16] = 15

--------------------------------------------------------------------------
(* SpecFollow: Enemy::update_formation_position alone, called with a few   *)
(* centres in turn on one enemy.  The offsets are those of the unit tests  *)
(* and of the left arm of the V, and two that lead below zero; hist holds  *)
(* the centre of the last call.                                            *)

MaxFollows == 3

FollowOffsets == {<<5, 3>>, <<-8, -2>>, <<-24, 12>>, <<-30, -20>>, <<0, -6>>}

FollowCentres == {0, 5, 20, 40} \X {0, 5, 15}

InitFollow ==
    /\ \E offset \in FollowOffsets :
         StartsAs([DamageWorld EXCEPT !.enemies =
                     << Enemy_new_in_formation(10, 10, "Basic", 0, offset) >>])
    /\ hist = [iter |-> 0, center_x |-> 0, center_y |-> 0]
    /\ pc = "update"

FollowCall ==
    /\ hist.iter < MaxFollows
    /\ \E c \in FollowCentres :
         /\ enemies' = << Enemy_update_formation_position(enemies[1], c[1], c[2]) >>
         /\ hist' = [iter |-> hist.iter + 1, center_x |-> c[1], center_y |-> c[2]]
    /\ UNCHANGED <<running, game_state, player, formations, projectiles, particles,
                   pickups, score, screen_width, screen_height, frame_count,
                   spawn_delay_frames, pc>>

NextFollow == FollowCall

SpecFollow == InitFollow /\ [][NextFollow]_vars

\* C20 as stated: update_formation_position(cx, cy) sets the position to
\* x = max(0, cx + dx) and y = max(0, cy + dy) for every centre and offset,
\* also when a sum is negative.
C20_Original ==
    [][LET e == enemies'[1]
       IN  /\ e.x = Max(0, hist'.center_x + e.formation_offset[1])
           /\ e.y = Max(0, hist'.center_y + e.formation_offset[2])]_vars

--------------------------------------------------------------------------
(* SpecArm: the fire key around the pickup tick of frame 180 in a 200x70   *)
(* terminal.  The player has climbed to row 3 and waits there; from frame  *)
(* ArmLead on the fire key is free in every frame.  A pickup spawned in    *)
(* frame 180 appears in row 3 and is collected at once when it touches the *)
(* ship, so shots with the basic gun are followed by shots with the weapon *)
(* picked up.  hist holds the actions of the last frame and the types of   *)
(* the projectiles fired so far.                                           *)

MaxArm == 24

ArmLead == 168

ArmSize == <<200, 70>>

InitArm ==
    /\ StartsAs(Replay(App_new(0, 30, 0), ArmSize,
                       Times(Quiet(<<"MoveUp">>), 53)
                           \o Times(Quiet(<< >>), ArmLead - 53)))
    /\ hist = [iter |-> 0, actions |-> << >>, types |-> << >>]
    /\ pc = "poll"

ArmLoopTop ==
    /\ pc = "poll"
    /\ running
    /\ hist.iter < MaxArm
    /\ \E actions \in {<< >>, <<"Fire">>} :
         LET v == process_actions(Resized(World, ArmSize), actions,
                                  [type_draw |-> 0, center_x |-> 30,
                                   enemy_draw |-> 0])
             shots == SubSeq(v.projectiles, Len(projectiles) + 1,
                             Len(v.projectiles))
         IN  /\ Becomes(v)
             /\ hist' = [iter |-> hist.iter + 1, actions |-> actions,
                         types |-> hist.types
                                     \o [i \in 1..Len(shots) |->
                                           shots[i].projectile_type]]
    /\ pc' = "update"

NextArm == ArmLoopTop \/ Tick

SpecArm == InitArm /\ [][NextArm]_vars

\* A projectile of the player as a record of what a shot is
Shot(x, y, projectile_type, velocity_x, lifetime, damage) ==
    [x |-> x, y |-> y, owner |-> "Player", damage |-> damage,
     projectile_type |-> projectile_type, velocity_x |-> velocity_x,
     lifetime |-> lifetime]

\* C21: a successful fire adds, by weapon: BasicGun one Bullet without lifetime;
\* Sword one Slash with lifetime 10 one cell above the ship; Bug two BugShots
\* with velocity -1 and +1 in that order; Bomber one bomb with lifetime 90 and
\* damage 5; all of the player, at the ship's centre column.  The weapon held
\* at the fire decides, so a changed weapon changes the next fire.
C21_ShotsByWeapon ==
    [][(IsFireAttempt /\ player.fire_cooldown = 0) =>
        LET cx == player.x + 2
            shots == SubSeq(projectiles', Len(projectiles) + 1, Len(projectiles'))
        IN  /\ SubSeq(projectiles', 1, Len(projectiles)) = projectiles
            /\ player.current_weapon = "BasicGun" =>
                  shots = << Shot(cx, player.y, "Bullet", 0, << >>, 10) >>
            /\ player.current_weapon = "Sword" =>
                  shots = << Shot(cx, player.y - 1, "Slash", 0, <<10>>, 10) >>
            /\ player.current_weapon = "Bug" =>
                  shots = << Shot(cx, player.y, "BugShot", -1, << >>, 10),
                             Shot(cx, player.y, "BugShot", 1, << >>, 10) >>
            /\ player.current_weapon = "Bomber" =>
                  shots = << Shot(cx, player.y, "BomberProjectile", 0, <<90>>, 5) >>]_vars

\* C21 witness: a bullet of the basic gun, then, the Bomber picked up, a bomb
C21_Witness ==
    /\ pc = "update"
    /\ hist.actions = <<"Fire">>
    /\ hist.types = <<"Bullet", "BomberProjectile">>
    /\ player.current_weapon = "Bomber"
    /\ projectiles[Len(projectiles)].damage = 5

--------------------------------------------------------------------------
(* SpecFlight: the projectile loop of update_game (update, then retain)    *)
(* in a lane of 98 by 70, on the shots of one fire of each weapon from the *)
(* left or right end of the lane, alone or followed by the shot of an      *)
(* enemy.  hist counts the updates.                                        *)

MaxFlight == 92

\* The ship's column at the two ends of the lane
FlightColumns == {0, 92}

InitFlight ==
    /\ \E x \in FlightColumns, weapon \in WeaponTypes, answered \in BOOLEAN :
         LET ship == Player_change_weapon(Player_new(x, 60), weapon)
             fired == Player_try_fire(ship)
             reply == IF answered THEN << Projectile_new(10, 8, "Enemy") >>
                      ELSE << >>
         IN  StartsAs([DamageWorld EXCEPT !.player = fired[1],
                                          !.projectiles = fired[2] \o reply])
    /\ hist = [iter |-> 0]
    /\ pc = "update"

FlightUpdate ==
    /\ hist.iter < MaxFlight
    /\ projectiles # << >>
    /\ projectiles' = ProjectileStep(World).projectiles
    /\ hist' = [iter |-> hist.iter + 1]
    /\ UNCHANGED <<running, game_state, player, enemies, formations, particles,
                   pickups, score, screen_width, screen_height, frame_count,
                   spawn_delay_frames, pc>>

NextFlight == FlightUpdate

SpecFlight == InitFlight /\ [][NextFlight]_vars

\* Where update number n since its creation puts projectile p
Flown(p, n) ==
    <<Max(0, p.x + p.velocity_x),
      IF p.projectile_type = "BomberProjectile" /\ n % 3 # 0 THEN p.y
      ELSE IF p.owner = "Player" THEN Max(0, p.y - 1)
      ELSE p.y + 1,
      p.owner, p.projectile_type>>

\* Column, row, owner and type of the projectiles of ps
Places(ps) ==
    [i \in 1..Len(ps) |-> <<ps[i].x, ps[i].y, ps[i].owner, ps[i].projectile_type>>]

\* C22: an update moves a projectile that is not a bomb one row (up for the
\* player's, not above row 0; down for an enemy's) whatever the other
\* projectiles are, moves a bomb one row on every third update only, and adds
\* the horizontal velocity to the column with the result not below 0.  The
\* projectiles after the loop are the updated ones the retain kept, in order.
C22_ProjectileMotion ==
    [][LET flown == [i \in 1..Len(projectiles) |->
                        Flown(projectiles[i], hist'.iter)]
       IN  \E gone \in SUBSET (0..(Len(projectiles) - 1)) :
              Places(projectiles') = WithoutMarked(flown, gone, 0)]_vars

\* C22 witness: the left shot of the Bug held at column 0 after four updates,
\* four rows up, with the enemy's shot four rows down
C22_Witness ==
    /\ hist.iter = 4
    /\ Places(projectiles) = << <<0, 56, "Player", "BugShot">>,
                                <<6, 56, "Player", "BugShot">>,
                                <<10, 12, "Enemy", "Bullet">> >>

\* The bomb after its first three and its first six updates in the same run
C22_BombWitness ==
    /\ hist.iter = 6
    /\ Places(projectiles) = << <<94, 58, "Player", "BomberProjectile">> >>

--------------------------------------------------------------------------
(* SpecCleanup: the two retains of update_game that prune the enemies off  *)
(* screen and the formations without a live member, on a wave that has     *)
(* descended to a row near the bottom of a playfield of 70 rows and has    *)
(* lost some of its enemies to the player.  The enemies stand where the    *)
(* enemy loop has just put them, at centre + offset.  hist holds the       *)
(* formation before the step.                                              *)

\* Rows of the centre: high up, and around the bottom row
CleanupRows == {5, 57, 61, 65, 69, 70}

\* The sets of 0-based enemy indices lost before the step: any set for the two
\* small shapes, a few for the large ones
LostSets(n) ==
    IF n <= 9 THEN SUBSET (0..(n - 1))
    ELSE {{}, 0..(n - 1), 0..(n - 2), 1..(n - 1), 0..(n \div 2 - 1)}

\* The wave of a spawn, its centre moved to row cy, the enemies following,
\* the lost ones removed
DescendedWave(type_draw, cy, lost) ==
    LET w == spawn_formation(DamageWorld, type_draw, 30, 0)
        f == [w.formations[1] EXCEPT !.center_y = cy]
        Follow(e) == Enemy_update_formation_position(e, f.center_x, f.center_y)
    IN  [w EXCEPT !.formations = <<f>>,
                  !.enemies = WithoutMarked(
                                  [i \in 1..Len(w.enemies) |-> Follow(w.enemies[i])],
                                  lost, 0)]

InitCleanup ==
    /\ \E type_draw \in 0..3, cy \in CleanupRows :
         \E lost \in LostSets(Len(Formation_get_positions(
                                      FormationTypeOfDraw(type_draw)))) :
            /\ StartsAs(DescendedWave(type_draw, cy, lost))
            /\ hist = [iter |-> 0,
                       formation |-> DescendedWave(type_draw, cy, lost).formations[1]]
    /\ pc = "update"

CleanupCall ==
    /\ hist.iter = 0
    /\ Becomes(CleanupStep(World))
    /\ hist' = [hist EXCEPT !.iter = 1]
    /\ UNCHANGED pc

NextCleanup == CleanupCall

SpecCleanup == InitCleanup /\ [][NextCleanup]_vars

\* The enemies of es that are on screen
RECURSIVE StillOnScreen(_)
StillOnScreen(es) ==
    IF es = << >> THEN << >>
    ELSE (IF Head(es).y < screen_height THEN <<Head(es)>> ELSE << >>)
         \o StillOnScreen(Tail(es))

\* C23: the formation is removed in the step in which, the enemies off screen
\* pruned, its centre row is at or below the bottom of the playfield or none of
\* its enemies is left alive, and kept when its centre is inside the playfield
\* and one of its enemies is alive.
C23_FormationCleanup ==
    [][hist.iter = 0 =>
        LET f == formations[1]
            members == {k \in 1..Len(enemies') :
                           /\ enemies'[k].formation_id = Some(0)
                           /\ enemies'[k].health > 0}
        IN  /\ enemies' = StillOnScreen(enemies)
            /\ IF f.center_y < screen_height /\ members # {}
               THEN formations' = <<f>>
               ELSE formations' = << >>]_vars

\* C23 witness: a V whose centre is still inside the playfield, its arms below
\* the bottom and its head enemy lost: no enemy is left and the formation is
\* removed
C23_Witness ==
    /\ hist.iter = 1
    /\ hist.formation.formation_type = "VShape"
    /\ hist.formation.center_y = 69
    /\ formations = << >>
    /\ enemies = << >>

\* A formation kept by its last enemies, most identifiers of its list stale
C23_KeptWitness ==
    /\ hist.iter = 1
    /\ hist.formation.formation_type = "Diamond"
    /\ hist.formation.center_y = 57
    /\ Len(enemies) = 2
    /\ formations = <<hist.formation>>

--------------------------------------------------------------------------
(* SpecBlast: one pass of check_collisions over a world that holds a bomb  *)
(* of the player with lifetime Some(0) at (40, 30).  update_game drops     *)
(* such a bomb in its retain before it calls the pass (see C1), so this is *)
(* the pass called on its own; the explosion branch has no other entry.    *)
(* Up to three enemies stand around the bomb: a Tank whose box holds the   *)
(* bomb's cell, a Basic with its centre at distance 8, a Basic with its    *)
(* centre at squared distance 65, a Fast inside the circle, a Basic far    *)
(* away.  hist holds the enemies and the score before the pass.            *)

BlastBomb ==
    Projectile_new_with_damage(40, 30, "Player", "BomberProjectile", 0, Some(0), 5)

BlastEnemies ==
    {Enemy_new_in_formation(36, 28, "Tank", 0, <<0, 0>>),
     Enemy_new_in_formation(45, 29, "Basic", 0, <<9, 1>>),
     Enemy_new_in_formation(45, 30, "Basic", 0, <<9, 2>>),
     Enemy_new_in_formation(38, 34, "Fast", 0, <<2, 6>>),
     Enemy_new_in_formation(70, 30, "Basic", 0, <<34, 2>>)}

InitBlast ==
    /\ \E es \in Lineups(BlastEnemies, 3), escorted \in BOOLEAN :
         /\ StartsAs([DamageWorld EXCEPT
                        !.enemies = es,
                        !.projectiles =
                            (IF escorted THEN << Projectile_new(90, 30, "Player") >>
                             ELSE << >>) \o << BlastBomb >>])
         /\ hist = [iter |-> 0, enemies |-> es, score |-> 0]
    /\ pc = "update"

BlastPass ==
    /\ hist.iter = 0
    /\ Becomes(check_collisions(World))
    /\ hist' = [hist EXCEPT !.iter = 1]
    /\ UNCHANGED pc

NextBlast == BlastPass

SpecBlast == InitBlast /\ [][NextBlast]_vars

\* The centre of enemy e is within the circle of radius 8 around (x, y)
InBlast(e, x, y) ==
    LET dx == x - (e.x + Enemy_get_width(e) \div 2)
        dy == y - (e.y + Enemy_get_height(e) \div 2)
    IN  dx * dx + dy * dy <= 64

\* C24: the pass on a bomb of the player with lifetime Some(0) takes 25 from
\* exactly the enemies whose centre is within dx*dx + dy*dy <= 64 of the bomb,
\* removes the enemies this kills and adds their points to the score, and
\* removes the bomb; the enemy whose box holds the bomb's cell takes no direct
\* damage on top.
C24_ExplosionDamagesCircle ==
    [][hist.iter = 0 =>
        LET bomb == projectiles[Len(projectiles)]
            left(k) == IF InBlast(enemies[k], bomb.x, bomb.y)
                       THEN Max(0, enemies[k].health - 25)
                       ELSE enemies[k].health
            dead == {k - 1 : k \in {j \in 1..Len(enemies) : left(j) = 0}}
            after == [k \in 1..Len(enemies) |->
                        <<enemies[k].x, enemies[k].y, left(k)>>]
            points == [k \in 1..Len(enemies) |->
                         IF left(k) = 0 THEN Enemy_get_points(enemies[k]) ELSE 0]
        IN  /\ Standing(enemies') = WithoutMarked(after, dead, 0)
            /\ score' = score + SumSeq(points)
            /\ projectiles' = SubSeq(projectiles, 1, Len(projectiles) - 1)]_vars

\* C24 witness: the Tank under the bomb is left with 5, the Basic at distance 8
\* is destroyed for 10 points, the Basic at squared distance 65 is untouched
C24_Witness ==
    /\ hist.iter = 1
    /\ Standing(hist.enemies) = << <<36, 28, 30>>, <<45, 29, 15>>, <<45, 30, 15>> >>
    /\ Standing(enemies) = << <<36, 28, 5>>, <<45, 30, 15>> >>
    /\ score = 10
    /\ projectiles = << Projectile_new(90, 30, "Player") >>

--------------------------------------------------------------------------
(* SpecStrike: one pass of check_collisions over the shots around the ship.*)
(* The ship is at (40, 20) with a health of 100, 20 or 10; one enemy       *)
(* stands at (10, 10).  Up to MaxStrikes projectiles: shots of the enemy   *)
(* in the corners of the ship's box, just outside it, and inside the box   *)
(* of the enemy, and a bullet of the player's own inside the ship's box.   *)
(* hist holds the player before the pass.                                  *)

MaxStrikes == 3

StrikeCells == {<<40, 20>>, <<44, 22>>, <<45, 20>>, <<39, 21>>, <<42, 23>>,
                <<12, 11>>}

StrikeShots ==
    {Projectile_new(c[1], c[2], "Enemy") : c \in StrikeCells}
        \cup {Projectile_new(41, 21, "Player")}

InitStrike ==
    /\ \E health \in {100, 20, 10},
          ps \in UNION {[1..k -> StrikeShots] : k \in 0..MaxStrikes} :
         /\ StartsAs([DamageWorld EXCEPT
                        !.player.health = health,
                        !.enemies = << Enemy_new_in_formation(10, 10, "Basic", 0,
                                                              <<0, 0>>) >>,
                        !.projectiles = ps])
         /\ hist = [iter |-> 0, health |-> health, projectiles |-> ps]
    /\ pc = "update"

StrikePass ==
    /\ hist.iter = 0
    /\ Becomes(check_collisions(World))
    /\ hist' = [hist EXCEPT !.iter = 1]
    /\ UNCHANGED pc

NextStrike == StrikePass

SpecStrike == InitStrike /\ [][NextStrike]_vars

\* The (1-based) enemy shots whose cell is inside the ship's box of 5 by 3
Striking ==
    {i \in 1..Len(projectiles) :
        /\ projectiles[i].owner = "Enemy"
        /\ projectiles[i].x >= player.x /\ projectiles[i].x < player.x + 5
        /\ projectiles[i].y >= player.y /\ projectiles[i].y < player.y + 3}

\* C25: in a collision pass every shot of an enemy inside the ship's box takes
\* its damage from the player once and is removed; the enemy shots outside the
\* box do no damage and stay, and no enemy shot damages an enemy.
C25_EnemyShotsHitPlayer ==
    [][hist.iter = 0 =>
        LET damage == SumSeq([i \in 1..Len(projectiles) |->
                                IF i \in Striking THEN projectiles[i].damage ELSE 0])
        IN  /\ player'.health = Max(0, player.health - damage)
            /\ projectiles' = WithoutMarked(projectiles,
                                            {i - 1 : i \in Striking}, 0)
            /\ enemies' = enemies
            /\ score' = score]_vars

\* C25 witness: two shots in the box and one beside it: 20 off the health, the
\* shot outside left
C25_Witness ==
    /\ hist.iter = 1
    /\ hist.health = 100
    /\ hist.projectiles = << Projectile_new(40, 20, "Enemy"),
                             Projectile_new(45, 20, "Enemy"),
                             Projectile_new(44, 22, "Enemy") >>
    /\ player.health = 80
    /\ projectiles = << Projectile_new(45, 20, "Enemy") >>

--------------------------------------------------------------------------
(* SpecCrash: one pass of check_collisions over enemies around the ship.   *)
(* The ship is at (40, 20) with a health of 100, 30 or 20.  Up to three    *)
(* enemies in any storage order: three whose boxes overlap the ship's box  *)
(* (one of them only in a corner cell) and two that touch it from outside. *)
(* In half of the runs a bullet of the player is inside the box of the     *)
(* Fast enemy, which it destroys.  hist holds the player's health and the  *)
(* enemies before the pass.                                                *)

CrashEnemies ==
    {Enemy_new_in_formation(38, 18, "Basic", 0, <<0, 0>>),
     Enemy_new_in_formation(44, 22, "Tank", 0, <<6, 4>>),
     Enemy_new_in_formation(34, 16, "Fast", 0, <<-4, -2>>),
     Enemy_new_in_formation(45, 20, "Basic", 0, <<7, 2>>),
     Enemy_new_in_formation(33, 23, "Basic", 0, <<-5, 5>>)}

InitCrash ==
    /\ \E health \in {100, 30, 20}, es \in Lineups(CrashEnemies, 3),
          shot \in BOOLEAN :
         /\ StartsAs([DamageWorld EXCEPT
                        !.player.health = health,
                        !.enemies = es,
                        !.projectiles = IF shot
                                        THEN << Projectile_new(35, 17, "Player") >>
                                        ELSE << >>])
         /\ hist = [iter |-> 0, health |-> health, enemies |-> es]
    /\ pc = "update"

CrashPass ==
    /\ hist.iter = 0
    /\ Becomes(check_collisions(World))
    /\ hist' = [hist EXCEPT !.iter = 1]
    /\ UNCHANGED pc

NextCrash == CrashPass

SpecCrash == InitCrash /\ [][NextCrash]_vars

\* The (1-based) enemies whose box overlaps the ship's box of 5 by 3
Ramming ==
    {k \in 1..Len(enemies) :
        /\ enemies[k].x < player.x + 5
        /\ enemies[k].x + Enemy_get_width(enemies[k]) > player.x
        /\ enemies[k].y < player.y + 3
        /\ enemies[k].y + Enemy_get_height(enemies[k]) > player.y}

\* C26: in a collision pass every enemy whose box overlaps the ship's takes 20
\* from the player, each of several in the same pass, and is removed; the score
\* changes only by the points of the enemies the player's shots destroyed.
C26_RammingCostsTwenty ==
    [][hist.iter = 0 =>
        LET left(k) == Max(0, enemies[k].health - DamageDue(k, 1))
            gone == {k - 1 : k \in {j \in 1..Len(enemies) :
                                       j \in Ramming \/ left(j) = 0}}
            after == [k \in 1..Len(enemies) |->
                        <<enemies[k].x, enemies[k].y, left(k)>>]
            points == [k \in 1..Len(enemies) |->
                         IF left(k) = 0 THEN Enemy_get_points(enemies[k]) ELSE 0]
        IN  /\ player'.health = Max(0, player.health - 20 * Cardinality(Ramming))
            /\ Standing(enemies') = WithoutMarked(after, gone, 0)
            /\ score' = score + SumSeq(points)]_vars

\* C26 witness: two enemies ram the ship in one pass and a third stands beside
\* it: 40 off the health, the third left, the score unchanged
C26_Witness ==
    /\ hist.iter = 1
    /\ hist.health = 100
    /\ Standing(hist.enemies) = << <<38, 18, 15>>, <<45, 20, 15>>, <<44, 22, 30>> >>
    /\ player.health = 60
    /\ Standing(enemies) = << <<45, 20, 15>> >>
    /\ score = 0

--------------------------------------------------------------------------
(* SpecSiege: a first wave in V shape left alone in a 200x70 terminal from *)
(* frame SiegeLead on, past frame 256, where the 8-bit fire_cooldown of    *)
(* the enemies wraps.  No key is pressed; each of the seven enemies fires  *)
(* or not when it can.  hist holds the last frame after whose update the   *)
(* first enemy could fire (-1: none yet in this run).                      *)

MaxSiege == 30

SiegeLead == 230

SiegeSize == <<200, 70>>

InitSiege ==
    /\ \E d \in {s \in SpawnDraws(0) : s.type_draw = 0} :
         StartsAs(Replay(App_new(d.type_draw, d.center_x, d.enemy_draw), SiegeSize,
                         Times(Quiet(<< >>), SiegeLead)))
    /\ hist = [iter |-> 0, eligible |-> -1]
    /\ pc = "poll"

SiegeLoopTop == LoopTop({SiegeSize}, {<< >>}, MaxSiege)

SiegeTick ==
    /\ Update
    /\ hist' = [hist EXCEPT !.eligible =
                  IF enemies' # << >> /\ Enemy_can_fire(enemies'[1])
                  THEN frame_count' ELSE @]

NextSiege == SiegeLoopTop \/ SiegeTick

SpecSiege == InitSiege /\ [][NextSiege]_vars

\* C27 as stated: the ticks after whose update a live enemy can fire are exactly
\* 120 ticks apart, at any age of the enemy.
C27_Original ==
    [][(IsTick /\ enemies' # << >> /\ Enemy_can_fire(enemies'[1])) =>
        /\ frame_count' % 120 = 0
        /\ hist.eligible >= 0 => frame_count' - hist.eligible = 120]_vars

--------------------------------------------------------------------------
(* SpecFall: a pickup left alone in a 200x70 terminal.  The player climbs  *)
(* to row 3 out of the way of the wave; the pickup of frame 180 appears in *)
(* column 10 and is never collected.  From frame FallLead on no key is     *)
(* pressed; the run covers the 256th update of the pickup, where its 8-bit *)
(* frame_counter wraps.  hist holds the frame in which the pickup was      *)
(* spawned (its first update is in that frame) and the frame of its last   *)
(* fall in this run (-1: none yet).                                        *)

MaxFall == 20

FallLead == 425

FallSize == <<200, 70>>

FallFrames ==
    Times(Quiet(<<"MoveUp">>), 53)
        \o Times(Quiet(<< >>), PICKUP_PERIOD - 1 - 53)
        \o << Dropping(<< >>, 1, 10) >>
        \o Times(Quiet(<< >>), FallLead - PICKUP_PERIOD)

InitFall ==
    /\ \E d \in SpawnDraws(0) :
         StartsAs(Replay(App_new(d.type_draw, d.center_x, d.enemy_draw), FallSize,
                         FallFrames))
    /\ hist = [iter |-> 0, born |-> PICKUP_PERIOD, fell |-> -1]
    /\ pc = "poll"

FallLoopTop == LoopTop({FallSize}, {<< >>}, MaxFall)

FallTick ==
    /\ Update
    /\ hist' = [hist EXCEPT !.fell =
                  IF pickups # << >> /\ pickups' # << >>
                     /\ pickups'[1].y # pickups[1].y
                  THEN frame_count' ELSE @]

NextFall == FallLoopTop \/ FallTick

SpecFall == InitFall /\ [][NextFall]_vars

\* C28 as stated: a pickup falls one cell on every 15th update since its
\* creation and on no other, also across the wrap of its 8-bit counter, and two
\* consecutive falls are 15 updates apart.
C28_Original ==
    [][(IsTick /\ pickups # << >> /\ pickups' # << >>) =>
        LET updates == frame_count' - hist.born + 1
            fell == pickups'[1].y = pickups[1].y + 1
        IN  /\ pickups'[1].y \in {pickups[1].y, pickups[1].y + 1}
            /\ fell <=> updates % 15 = 0
            /\ (fell /\ hist.fell >= 0) => frame_count' - hist.fell = 15]_vars

--------------------------------------------------------------------------
(* SpecImpact: one pass of check_collisions over a world that holds one    *)
(* bomb of the player still in flight (lifetime 90, 45 or 1) and up to     *)
(* three of the enemies of SpecBlast, the first of them at full health or  *)
(* with 5 left.  The bomb is in the box of the Tank with the other enemies *)
(* inside the circle of an explosion, in the rows shared by the two Basic  *)
(* enemies, or in no box.  hist holds the enemies and the bomb before the  *)
(* pass.                                                                   *)

ImpactCells == {<<40, 30>>, <<46, 30>>, <<40, 40>>}

ImpactLifetimes == {1, 45, 90}

InitImpact ==
    /\ \E es \in Lineups(BlastEnemies, 3), cell \in ImpactCells,
          lifetime \in ImpactLifetimes, wounded \in BOOLEAN :
         LET bomb == Projectile_new_with_damage(cell[1], cell[2], "Player",
                                                "BomberProjectile", 0,
                                                Some(lifetime), 5)
             met == IF wounded THEN [es EXCEPT ![1].health = 5] ELSE es
         IN  /\ StartsAs([DamageWorld EXCEPT !.enemies = met,
                                             !.projectiles = << bomb >>])
             /\ hist = [iter |-> 0, enemies |-> met, bomb |-> bomb]
    /\ pc = "update"

ImpactPass ==
    /\ hist.iter = 0
    /\ Becomes(check_collisions(World))
    /\ hist' = [hist EXCEPT !.iter = 1]
    /\ UNCHANGED pc

NextImpact == ImpactPass

SpecImpact == InitImpact /\ [][NextImpact]_vars

\* C30: in a collision pass a bomb of the player whose lifetime has not run out
\* and whose cell is inside the box of an enemy takes 5 from the first such
\* enemy in storage order and from no other enemy, however close, and is
\* removed; an enemy this kills is removed for its points; a bomb in no box
\* damages nothing and stays.
C30_LiveBombHitsDirectly ==
    [][hist.iter = 0 =>
        LET first == IF Struck(1) = {} THEN 0 ELSE MinOf(Struck(1))
            left(k) == IF k = first THEN Max(0, enemies[k].health - 5)
                       ELSE enemies[k].health
            dead == {k - 1 : k \in {j \in 1..Len(enemies) : left(j) = 0}}
            after == [k \in 1..Len(enemies) |->
                        <<enemies[k].x, enemies[k].y, left(k)>>]
            points == [k \in 1..Len(enemies) |->
                         IF left(k) = 0 THEN Enemy_get_points(enemies[k]) ELSE 0]
        IN  /\ Standing(enemies') = WithoutMarked(after, dead, 0)
            /\ score' = score + SumSeq(points)
            /\ projectiles' = IF first = 0 THEN projectiles ELSE << >>
            /\ dead = {} => particles' = particles]_vars

\* C30 witness: a bomb with 45 updates left in the box of the Tank, two enemies
\* within 8 cells of it: the Tank took 5, the others nothing, the bomb is gone
C30_Witness ==
    /\ hist.iter = 1
    /\ hist.bomb.lifetime = Some(45)
    /\ <<hist.bomb.x, hist.bomb.y>> = <<40, 30>>
    /\ Standing(hist.enemies) = << <<45, 29, 15>>, <<36, 28, 30>>, <<38, 34, 10>> >>
    /\ Standing(enemies) = << <<45, 29, 15>>, <<36, 28, 25>>, <<38, 34, 10>> >>
    /\ projectiles = << >>
    /\ score = 0

\* C30, second witness: the bomb in the rows shared by the two Basic enemies,
\* the first of them with 5 left: it is destroyed for 10 points, the other is
\* untouched
C30_KillWitness ==
    /\ hist.iter = 1
    /\ <<hist.bomb.x, hist.bomb.y>> = <<46, 30>>
    /\ Standing(hist.enemies) = << <<45, 30, 5>>, <<45, 29, 15>> >>
    /\ Standing(enemies) = << <<45, 29, 15>> >>
    /\ projectiles = << >>
    /\ score = 10

--------------------------------------------------------------------------
(* SpecSweep: the App left alone in a 200x40 terminal (lane 98).  The      *)
(* first wave has left the screen by frame 280 and after SweepLead idle    *)
(* iterations the next wave is about to be spawned, in a lane whose width  *)
(* has been the same since the first iteration; the MaxSweep iterations    *)
(* that follow spawn it, with every shape and the ends and the middle of   *)
(* the centre range, and run its first ticks.  hist holds the centre the   *)
(* wave was created with (-1 before).                                      *)

MaxSweep == 16

SweepLead == 365

SweepSize == <<200, 40>>

InitSweep ==
    /\ \E d \in SpawnDraws(0) :
         StartsAs(Replay(App_new(d.type_draw, d.center_x, d.enemy_draw), SweepSize,
                         Times(Quiet(<< >>), SweepLead)))
    /\ hist = [iter |-> 0, born |-> -1]
    /\ pc = "poll"

SweepLoopTop == LoopTop({SweepSize}, {<< >>}, MaxSweep)

SweepTick ==
    /\ Update
    /\ hist' = [hist EXCEPT !.born = IF WaveSpawned THEN formations'[1].center_x
                                     ELSE @]

NextSweep == SweepLoopTop \/ SweepTick

SpecSweep == InitSweep /\ [][NextSweep]_vars

\* C31 as stated: a formation created by spawn_formation in a lane of constant
\* width has its centre in [30, lane - 30) and its members inside the sweep
\* margins (leftmost offset at 5 or more, rightmost at lane - 10 or less), and
\* its centre has changed by its eighth tick.
C31_Original ==
    (pc = "poll" /\ hist.born >= 0 /\ formations # << >>) =>
        LET f == formations[1]
        IN  /\ f.frame_counter = 1 =>
                 /\ f.center_x >= 30 /\ f.center_x < LaneWidth - 30
                 /\ f.center_x + Formation_min_offset(f.formation_type) >= 5
                 /\ f.center_x + Formation_max_offset(f.formation_type)
                        <= LaneWidth - 10
            /\ f.frame_counter = 8 => f.center_x # hist.born

\* The second half of C31 alone: the centre has changed by the eighth tick
C31_SweepsWithinEight ==
    (pc = "poll" /\ hist.born >= 0 /\ formations # << >>
        /\ formations[1].frame_counter = 8) => formations[1].center_x # hist.born

--------------------------------------------------------------------------
(* SpecBurst: explosions in a 150x70 terminal (lane 48).  The player has   *)
(* walked from its start column to the right end of the lane and climbed   *)
(* to row 36, below the right-hand enemies of the first wave, which stand  *)
(* at or beyond the end of the lane.  In the first BurstWindow iterations  *)
(* that follow it may fire; the bullets destroy Fast enemies and wound     *)
(* others, and the bursts of the destroyed ones start inside the lane near *)
(* its end, or outside it.  hist holds the frame of the last tick that     *)
(* created particles (0: none).                                            *)

MaxBurst == 40

BurstWindow == 12

BurstSize == <<150, 70>>

\* Iterations walking left before the start: the ship ends in column 44 or 42
BurstWalks == {36, 38}

InitBurst ==
    /\ \E d \in SpawnDraws(0), walk \in BurstWalks :
         StartsAs(Replay(App_new(d.type_draw, d.center_x, d.enemy_draw), BurstSize,
                         Times(Quiet(<<"MoveLeft", "MoveUp">>), 20)
                             \o Times(Quiet(<<"MoveLeft">>), walk - 20)))
    /\ hist = [iter |-> 0, burst |-> 0]
    /\ pc = "poll"

BurstLoopTop ==
    /\ LoopTop({BurstSize}, {<< >>, <<"Fire">>}, MaxBurst)
    /\ hist.iter >= BurstWindow => projectiles' = projectiles

BurstTick ==
    /\ Update
    /\ hist' = [hist EXCEPT !.burst =
                    IF \E i \in 1..Len(particles') : particles'[i].lifetime = 6
                    THEN frame_count' ELSE @]

NextBurst == BurstLoopTop \/ BurstTick

SpecBurst == InitBurst /\ [][NextBurst]_vars

\* A particle one tick older: a tick less to live, one step along its velocity
\* unless that leads below 0
Aged(p) ==
    [p EXCEPT !.lifetime = @ - 1,
              !.x = IF @ + p.velocity_x < 0 THEN @ ELSE @ + p.velocity_x,
              !.y = IF @ + p.velocity_y < 0 THEN @ ELSE @ + p.velocity_y]

\* The particle is inside the lane of the current terminal
InLane(p) == p.x < LaneWidth /\ p.y < screen_height

\* The particle is as create_explosion_particles makes it
Fresh(p) ==
    \/ p.lifetime = 6 /\ p.char = "*" /\ <<p.velocity_x, p.velocity_y>> # <<0, 0>>
    \/ p.lifetime = 4 /\ p.char = "o" /\ <<p.velocity_x, p.velocity_y>> = <<0, 0>>

\* C32: a tick keeps exactly the particles that, one tick older, still have a
\* lifetime above 0 and are inside the lane, in order, followed by the bursts
\* it creates (particles of lifetime 6 or 4); so after a tick every particle
\* has a lifetime of at least 1 and at most 6 minus the ticks since the last
\* burst was created, and the sixth tick after it leaves none.
C32_ParticlesExpire ==
    [][IsTick =>
        LET Keep(p) == p.lifetime > 0 /\ InLane(p)
            aged == [i \in 1..Len(particles) |-> Aged(particles[i])]
            kept == SelectSeq(aged, Keep)
            since == frame_count' - hist'.burst
        IN  /\ Len(particles') >= Len(kept)
            /\ SubSeq(particles', 1, Len(kept)) = kept
            /\ \A i \in (Len(kept) + 1)..Len(particles') : Fresh(particles'[i])
            /\ (Len(particles') - Len(kept)) % 9 = 0
            /\ \A i \in 1..Len(particles') :
                  /\ particles'[i].lifetime >= 1
                  /\ particles'[i].lifetime <= 6 - since
            /\ since >= 6 => particles' = << >>]_vars

\* C32 witness: the sixth tick after a burst has just removed its last particles
C32_Witness ==
    /\ pc = "poll"
    /\ hist.burst > 0
    /\ frame_count = hist.burst + 6
    /\ particles = << >>
    /\ score > 0

\* C32, second witness: two ticks after a burst its centre particle is still
\* there and particles of the ring have left the lane
C32_LeftLaneWitness ==
    /\ pc = "poll"
    /\ frame_count = hist.burst + 2
    /\ \E i \in 1..Len(particles) : particles[i].char = "o" /\ particles[i].lifetime = 2
    /\ Len(particles) \in 1..8

--------------------------------------------------------------------------
(* SpecTwin: two Apps side by side.  The first starts as in SpecBurst; the *)
(* second, held in hist.twin, starts as the same world with other cosmetic *)
(* state: a burst of particles in the lane, a flash timer of 40 on the     *)
(* ship, hit flashes on the enemies, or any of these together.  Every      *)
(* iteration gives both the same terminal size and action list, and every  *)
(* tick the same random draws.                                             *)

MaxTwin == 30

\* The world with other cosmetic state
Recoloured(w, sparks, ship_flash, enemy_flash) ==
    [w EXCEPT !.particles = IF sparks THEN create_explosion_particles(20, 20) ELSE @,
              !.player.damage_flash_frames = ship_flash,
              !.enemies = [i \in 1..Len(@) |->
                             [@[i] EXCEPT !.damage_flash_frames = enemy_flash]]]

InitTwin ==
    /\ \E d \in SpawnDraws(0), walk \in BurstWalks :
         LET w == Replay(App_new(d.type_draw, d.center_x, d.enemy_draw), BurstSize,
                         Times(Quiet(<<"MoveLeft", "MoveUp">>), 20)
                             \o Times(Quiet(<<"MoveLeft">>), walk - 20))
         IN  /\ StartsAs(w)
             /\ \E sparks \in BOOLEAN, ship_flash \in {0, 40}, enemy_flash \in {0, 5} :
                  /\ sparks \/ ship_flash # 0 \/ enemy_flash # 0
                  /\ hist = [iter |-> 0,
                             twin |-> Recoloured(w, sparks, ship_flash, enemy_flash)]
    /\ pc = "poll"

\* The top of the loop of both Apps, with the same size and action list
TwinLoopTop ==
    /\ pc = "poll"
    /\ running
    /\ hist.iter < MaxTwin
    /\ \E actions \in {<< >>, <<"Fire">>} :
         LET restart == [type_draw |-> 0, center_x |-> 30, enemy_draw |-> 0]
         IN  /\ Becomes(process_actions(Resized(World, BurstSize), actions, restart))
             /\ hist' = [iter |-> hist.iter + 1,
                         twin |-> process_actions(Resized(hist.twin, BurstSize),
                                                  actions, restart)]
    /\ hist.iter >= BurstWindow => projectiles' = projectiles
    /\ pc' = "update"

\* The update of both Apps, with the same draws
TwinTick ==
    /\ pc = "update"
    /\ game_state = "Playing"
    /\ \E rnd \in TickDraws(World) :
         /\ Becomes(update_game(World, rnd))
         /\ hist' = [hist EXCEPT !.twin = IF @.game_state = "Playing"
                                          THEN update_game(@, rnd) ELSE @]
    /\ pc' = "poll"

NextTwin == TwinLoopTop \/ TwinTick

SpecTwin == InitTwin /\ [][NextTwin]_vars

\* The world without its cosmetic state
Logic(w) ==
    [w EXCEPT !.particles = << >>,
              !.player.damage_flash_frames = 0,
              !.enemies = [i \in 1..Len(@) |-> [@[i] EXCEPT !.damage_flash_frames = 0]]]

\* C33: two worlds that differ only in the particles and in the hit flashes of
\* the ship and the enemies, given the same actions and the same draws, agree
\* after every step on everything else: game state, score, frame count, the
\* ship, the enemies, formations, projectiles and pickups.
C33_CosmeticsDoNotInfluence ==
    Logic(World) = Logic(hist.twin)

\* C33 witness: a bullet has just wounded an enemy in both worlds, which still
\* differ in the flash of the ship
C33_Witness ==
    /\ pc = "poll"
    /\ \E i \in 1..Len(enemies) :
          /\ enemies[i].damage_flash_frames > 0
          /\ enemies[i].health < Enemy_initial_health(enemies[i].enemy_type)
          /\ hist.twin.enemies[i].health = enemies[i].health
    /\ player.damage_flash_frames # hist.twin.player.damage_flash_frames

\* C33, second witness: a bullet has destroyed an enemy in both worlds
C33_KillWitness ==
    /\ pc = "poll"
    /\ score > 0
    /\ hist.twin.score = score
    /\ particles # << >>
    /\ World # hist.twin

--------------------------------------------------------------------------
(* SpecPause: pausing and resuming in a 150x70 terminal, from the starting *)
(* states of SpecBurst.  While the game is played an iteration's action    *)
(* list is what the input manager makes of the space bar held or not and   *)
(* the pause key pressed or not; while it is paused, of the pause key      *)
(* pressed or not.  hist holds the action list of the last iteration.      *)

MaxPause == 10

PauseLists ==
    IF game_state = "Playing"
    THEN {<< >>, <<"Fire">>, <<"Pause">>, <<"Pause", "Fire">>}
    ELSE {<< >>, <<"Resume">>}

InitPause ==
    /\ \E d \in SpawnDraws(0), walk \in BurstWalks :
         StartsAs(Replay(App_new(d.type_draw, d.center_x, d.enemy_draw), BurstSize,
                         Times(Quiet(<<"MoveLeft", "MoveUp">>), 20)
                             \o Times(Quiet(<<"MoveLeft">>), walk - 20)))
    /\ hist = [iter |-> 0, actions |-> << >>]
    /\ pc = "poll"

PauseLoopTop ==
    /\ pc = "poll"
    /\ running
    /\ hist.iter < MaxPause
    /\ \E actions \in PauseLists :
         /\ Becomes(process_actions(Resized(World, BurstSize), actions,
                                    [type_draw |-> 0, center_x |-> 30,
                                     enemy_draw |-> 0]))
         /\ hist' = [iter |-> hist.iter + 1, actions |-> actions]
    /\ pc' = "update"

NextPause == PauseLoopTop \/ Tick \/ SkipUpdate

SpecPause == InitPause /\ [][NextPause]_vars

\* The step leaves what a tick would change as it is
NoTickEffect ==
    /\ frame_count' = frame_count
    /\ spawn_delay_frames' = spawn_delay_frames
    /\ score' = score
    /\ player'.health = player.health
    /\ player'.fire_cooldown = player.fire_cooldown
    /\ player'.damage_flash_frames = player.damage_flash_frames
    /\ UNCHANGED <<enemies, formations, particles, pickups>>

\* C35 as stated: in an iteration whose game state is Paused after the actions
\* are processed, neither the processing nor the rest of the iteration changes
\* the frame count, the spawn delay, the score, the player's health and
\* cooldowns, the enemies, formations, particles or pickups; and a Resume sets
\* the state to Playing and changes nothing else.
C35_Original ==
    [][/\ (pc = "poll" /\ game_state' = "Paused") => NoTickEffect
       /\ (pc = "update" /\ game_state = "Paused") =>
             NoTickEffect /\ UNCHANGED <<game_state, projectiles>>
       /\ (pc = "poll" /\ game_state = "Paused" /\ hist'.actions = <<"Resume">>) =>
             /\ game_state' = "Playing"
             /\ UNCHANGED <<player, projectiles>>]_vars

--------------------------------------------------------------------------
(* InputManager (input.rs).  A key event is a record of its kind ("Press", *)
(* "Release" or another), its code (the character, or "Esc", "Up",         *)
(* "Down", "Left", "Right") and whether the modifiers hold CONTROL.        *)

KeyState_default ==
    [up |-> FALSE, down |-> FALSE, left |-> FALSE, right |-> FALSE, fire |-> FALSE]

InputManager_new == [key_state |-> KeyState_default, oneshot_actions |-> << >>]

\* Mutant: the pause key resumes a game that is over as well
handle_key_press_resume_when_over(m, key_event, state) ==
    LET code == key_event.code
        OneShot(action) == [m EXCEPT !.oneshot_actions = Append(@, action)]
    IN  IF code \in {"q", "Q", "Esc"} \/ (code = "c" /\ key_event.control)
        THEN OneShot("Quit")
        ELSE IF state = "Playing" /\ code \in {"p", "P"} THEN OneShot("Pause")
        ELSE IF state # "Playing" /\ code \in {"p", "P"} THEN OneShot("Resume")
        ELSE IF state = "GameOver" /\ code \in {"r", "R"} THEN OneShot("Restart")
        ELSE IF state # "Playing" THEN m
        ELSE CASE code \in {"w", "W", "Up"} ->
                    [m EXCEPT !.key_state.up = TRUE, !.key_state.down = FALSE]
               [] code \in {"s", "S", "Down"} ->
                    [m EXCEPT !.key_state.down = TRUE, !.key_state.up = FALSE]
               [] code \in {"a", "A", "Left"} ->
                    [m EXCEPT !.key_state.left = TRUE, !.key_state.right = FALSE]
               [] code \in {"d", "D", "Right"} ->
                    [m EXCEPT !.key_state.right = TRUE, !.key_state.left = FALSE]
               [] code = " " -> [m EXCEPT !.key_state.fire = TRUE]
               [] OTHER -> m

handle_key_press(m, key_event, state) ==
    LET code == key_event.code
        OneShot(action) == [m EXCEPT !.oneshot_actions = Append(@, action)]
    IN  IF code \in {"q", "Q", "Esc"} \/ (code = "c" /\ key_event.control)
        THEN OneShot("Quit")
        ELSE IF state = "Playing" /\ code \in {"p", "P"} THEN OneShot("Pause")
        ELSE IF state = "Paused" /\ code \in {"p", "P"} THEN OneShot("Resume")
        ELSE IF state = "GameOver" /\ code \in {"r", "R"} THEN OneShot("Restart")
        ELSE IF state # "Playing" THEN m
        ELSE CASE code \in {"w", "W", "Up"} ->
                    [m EXCEPT !.key_state.up = TRUE, !.key_state.down = FALSE]
               [] code \in {"s", "S", "Down"} ->
                    [m EXCEPT !.key_state.down = TRUE, !.key_state.up = FALSE]
               [] code \in {"a", "A", "Left"} ->
                    [m EXCEPT !.key_state.left = TRUE, !.key_state.right = FALSE]
               [] code \in {"d", "D", "Right"} ->
                    [m EXCEPT !.key_state.right = TRUE, !.key_state.left = FALSE]
               [] code = " " -> [m EXCEPT !.key_state.fire = TRUE]
               [] OTHER -> m

handle_key_release(m, code) ==
    CASE code \in {"w", "W", "Up"} -> [m EXCEPT !.key_state.up = FALSE]
      [] code \in {"s", "S", "Down"} -> [m EXCEPT !.key_state.down = FALSE]
      [] code \in {"a", "A", "Left"} -> [m EXCEPT !.key_state.left = FALSE]
      [] code \in {"d", "D", "Right"} -> [m EXCEPT !.key_state.right = FALSE]
      [] code = " " -> [m EXCEPT !.key_state.fire = FALSE]
      [] OTHER -> m

handle_key_event(m, key_event, state) ==
    CASE key_event.kind = "Press" -> handle_key_press(m, key_event, state)
      [] key_event.kind = "Release" -> handle_key_release(m, key_event.code)
      [] OTHER -> m

\* The loop of poll_events over the key events that are waiting
RECURSIVE HandleEach(_, _, _)
HandleEach(m, events, state) ==
    IF events = << >> THEN m
    ELSE HandleEach(handle_key_event(m, Head(events), state), Tail(events), state)

poll_events(m, events, state) ==
    HandleEach([m EXCEPT !.oneshot_actions = << >>], events, state)

\* Mutant: the held keys count in every game state
get_actions_any_state(m, state) ==
    m.oneshot_actions
        \o (IF m.key_state.left THEN <<"MoveLeft">> ELSE << >>)
        \o (IF m.key_state.right THEN <<"MoveRight">> ELSE << >>)
        \o (IF m.key_state.up THEN <<"MoveUp">> ELSE << >>)
        \o (IF m.key_state.down THEN <<"MoveDown">> ELSE << >>)
        \o (IF m.key_state.fire THEN <<"Fire">> ELSE << >>)

get_actions(m, state) ==
    m.oneshot_actions
        \o (IF state = "Playing"
            THEN (IF m.key_state.left THEN <<"MoveLeft">> ELSE << >>)
                 \o (IF m.key_state.right THEN <<"MoveRight">> ELSE << >>)
                 \o (IF m.key_state.up THEN <<"MoveUp">> ELSE << >>)
                 \o (IF m.key_state.down THEN <<"MoveDown">> ELSE << >>)
                 \o (IF m.key_state.fire THEN <<"Fire">> ELSE << >>)
            ELSE << >>)

--------------------------------------------------------------------------
(* SpecInput: App::run driven by the keyboard in a 200x70 terminal.  An    *)
(* iteration reads the terminal size, polls the key events that are        *)
(* waiting (none, one or two of KeyEvents) with the App's game state,       *)
(* asks the manager for the frame's actions with the same state and        *)
(* processes them; the update follows while the game is played.  The runs  *)
(* start from App::new, and from the state InputLead frames later in which *)
(* the keys a and w have been held all along: the ship has walked up and   *)
(* left, as in SpecRam.  The first wave is a Block, of any enemy type;     *)
(* where it is of Fast enemies the rams are about to use up the ship's     *)
(* health.  A Restart draws its wave freely.  hist holds the               *)
(* manager after the iteration's poll (a new one after a Restart, which    *)
(* replaces the App), the game state that was passed to the manager, and   *)
(* the action list it returned.                                            *)

MaxFrames == 3

InputLead == 38

InputSize == <<200, 70>>

\* The keys pressed: those of the one-shot actions, c with and without
\* CONTROL, the four directions and the space bar
PressedCodes == {"q", "c", "p", "r", "w", "s", "a", "Right", " "}

\* The keys released
ReleasedCodes == {"a", " "}

KeyEvents ==
    {[kind |-> "Press", code |-> c, control |-> FALSE] : c \in PressedCodes}
        \cup {[kind |-> "Release", code |-> c, control |-> FALSE] : c \in ReleasedCodes}
        \cup {[kind |-> "Press", code |-> "c", control |-> TRUE]}

\* The key events waiting when the keyboard is polled
KeyBursts ==
    {<< >>} \cup {<<e>> : e \in KeyEvents} \cup {<<e, f>> : e, f \in KeyEvents}

\* The elements of a sequence
Range(s) == {s[i] : i \in 1..Len(s)}

\* The manager after the keys a and w have gone down in a game that is played
WalkingManager ==
    poll_events(poll_events(InputManager_new,
                            << [kind |-> "Press", code |-> "a", control |-> FALSE],
                               [kind |-> "Press", code |-> "w", control |-> FALSE] >>,
                            "Playing"),
                << >>, "Playing")

InitInput ==
    /\ \E d \in {s \in SpawnDraws(0) : s.type_draw = 3}, lead \in {0, InputLead} :
         /\ StartsAs(Replay(App_new(d.type_draw, d.center_x, d.enemy_draw), InputSize,
                            Times(Quiet(get_actions(WalkingManager, "Playing")), lead)))
         /\ hist = [iter |-> 0,
                    input_manager |-> IF lead = 0 THEN InputManager_new
                                      ELSE WalkingManager,
                    state |-> "Playing",
                    actions |-> IF lead = 0 THEN << >>
                                ELSE get_actions(WalkingManager, "Playing")]
    /\ pc = "poll"

\* Top of the loop: the terminal size is read, the key events are polled and
\* the frame's actions are processed
InputFrame ==
    /\ pc = "poll"
    /\ running
    /\ hist.iter < MaxFrames
    /\ \E events \in KeyBursts :
         LET polled == poll_events(hist.input_manager, events, game_state)
             actions == get_actions(polled, game_state)
             restarted == "Restart" \in Range(actions)
         IN  \E restart \in (IF restarted THEN SpawnDraws(0)
                             ELSE {[type_draw |-> 0, center_x |-> 30,
                                    enemy_draw |-> 0]}) :
                /\ Becomes(process_actions(Resized(World, InputSize), actions,
                                           restart))
                /\ hist' = [iter |-> hist.iter + 1,
                            input_manager |-> IF restarted THEN InputManager_new
                                              ELSE polled,
                            state |-> game_state, actions |-> actions]
    /\ pc' = "update"

NextInput == InputFrame \/ Tick \/ SkipUpdate

SpecInput == InitInput /\ [][NextInput]_vars

\* C34: while the game state is GameOver every step of the loop leaves the
\* state GameOver and the frame count, the score and the entities as they
\* are, whatever keys are pressed, released or held, unless the step
\* processes an action list with a Restart; that step sets the state to
\* Playing.
C34_GameOverUntilRestart ==
    [][game_state = "GameOver" =>
        IF pc = "poll" /\ "Restart" \in Range(hist'.actions)
        THEN game_state' = "Playing"
        ELSE /\ game_state' = "GameOver"
             /\ frame_count' = frame_count
             /\ score' = score
             /\ UNCHANGED <<player, enemies, formations, projectiles, particles,
                            pickups>>]_vars

\* C34 witness: the game is over, an iteration has polled the keyboard in
\* GameOver with the keys a and w still held, and has left the update out
C34_Witness ==
    /\ pc = "poll"
    /\ game_state = "GameOver"
    /\ hist.state = "GameOver"
    /\ hist.input_manager.key_state.left /\ hist.input_manager.key_state.up
    /\ hist.actions \in {<< >>, <<"Quit">>}
    /\ player.health = 0

\* C34, second witness: the r key has restarted the game that was over, and
\* the first tick of the new game has run
C34_RestartWitness ==
    /\ pc = "poll"
    /\ hist.state = "GameOver"
    /\ hist.actions = <<"Restart">>
    /\ game_state = "Playing"
    /\ frame_count = 1
    /\ score = 0

\* C36: the action list of a frame holds Pause only if the state passed is
\* Playing, Resume only if Paused, Restart only if GameOver, the moves and Fire
\* only if Playing (Quit in any state); no one-shot action follows a continuous
\* one; and the list never holds both MoveLeft and MoveRight, or both MoveUp
\* and MoveDown.
C36_ActionsRespectState ==
    LET a == hist.actions
    IN  /\ "Pause" \in Range(a) => hist.state = "Playing"
        /\ "Resume" \in Range(a) => hist.state = "Paused"
        /\ "Restart" \in Range(a) => hist.state = "GameOver"
        /\ Range(a) \cap ContinuousActions # {} => hist.state = "Playing"
        /\ \A i, j \in 1..Len(a) :
              (i < j /\ a[i] \in ContinuousActions) => a[j] \in ContinuousActions
        /\ ~({"MoveLeft", "MoveRight"} \subseteq Range(a))
        /\ ~({"MoveUp", "MoveDown"} \subseteq Range(a))

\* C36 witness: left and up are held from earlier frames, in this frame the
\* right key and the pause key are pressed in Playing: Pause comes first, and
\* MoveRight has replaced MoveLeft
C36_Witness ==
    /\ hist.iter > 0
    /\ hist.state = "Playing"
    /\ hist.actions = <<"Pause", "MoveRight", "MoveUp">>

\* C36, second witness: keys held while the game is paused give no action
C36_HeldWhilePausedWitness ==
    /\ hist.state = "Paused"
    /\ hist.input_manager.key_state.left /\ hist.input_manager.key_state.fire
    /\ hist.actions = <<"Resume">>

\* C36, third witness: in a game that is over the keys held give no action,
\* and the r key gives the Restart
C36_RestartWitness ==
    /\ hist.state = "GameOver"
    /\ hist.actions = <<"Restart">>

--------------------------------------------------------------------------
(* SpecWave: the life of a wave and the arrival of the next in a 150x10    *)
(* terminal (lane 48), from App::new to the frame before the first pickup  *)
(* draw.  The first wave leaves the short screen row by row while the      *)
(* player walks into the lane and climbs to row 9; 90 ticks after the last *)
(* enemy has gone the next wave is spawned, with every draw, above the     *)
(* ship.  From then on the fire key is free: enemies are wounded and       *)
(* destroyed, the wave descends onto the ship and rams it, and its rows    *)
(* leave the screen.  hist counts the waves.                               *)

MaxWave == 130

WaveSize == <<150, 10>>

\* The iterations the player walks left and up
WaveWalks == {36, 37}

InitWave ==
    /\ \E d \in SpawnDraws(0), walk \in WaveWalks :
         StartsAs(Replay(App_new(d.type_draw, d.center_x, d.enemy_draw), WaveSize,
                         Times(Quiet(<<"MoveLeft", "MoveUp">>), walk)
                             \o Times(Quiet(<<"MoveUp">>), 47 - walk)))
    /\ hist = [iter |-> 0, waves |-> 1]
    /\ pc = "poll"

WaveLoopTop ==
    LoopTop({WaveSize},
            IF hist.waves >= 2 THEN {<< >>, <<"Fire">>} ELSE {<< >>},
            MaxWave)

WaveTick ==
    /\ Update
    /\ hist' = [hist EXCEPT !.waves = IF WaveSpawned THEN @ + 1 ELSE @]

NextWave == WaveLoopTop \/ WaveTick

SpecWave == InitWave /\ [][NextWave]_vars

\* C37: there is never more than one formation, and every enemy carries the
\* index of a formation that exists and is its own: the enemy's offset is a
\* position of that formation's shape and, between ticks, the enemy stands at
\* the formation's centre plus its offset.
C37_EnemiesKeepTheirFormation ==
    /\ Len(formations) <= 1
    /\ \A i \in 1..Len(enemies) :
          LET e == enemies[i]
          IN  /\ IsSome(e.formation_id)
              /\ Unwrap(e.formation_id) < Len(formations)
              /\ LET f == formations[Unwrap(e.formation_id) + 1]
                     positions == Formation_get_positions(f.formation_type)
                 IN  /\ \E k \in 1..Len(positions) : positions[k] = e.formation_offset
                     /\ <<e.x, e.y>> = <<f.center_x + e.formation_offset[1],
                                         f.center_y + e.formation_offset[2]>>

\* C37 witness: enemies of the second wave have been destroyed, have rammed
\* the ship or have left the screen, so that the indices held by the formation
\* are stale, and the rest still follows it
C37_Witness ==
    /\ pc = "poll"
    /\ hist.waves = 2
    /\ score > 0
    /\ player.health < 100
    /\ Len(formations) = 1
    /\ enemies # << >>
    /\ Len(enemies) < Len(formations[1].enemy_indices) - 2

\* C37, second witness: the second wave is on its way, after the first was
\* removed
C37_NextWaveWitness ==
    /\ pc = "poll"
    /\ hist.waves = 2
    /\ Len(formations) = 1
    /\ formations[1].frame_counter = 8
    /\ enemies # << >>

\* C38: after every completed tick every enemy in the collection has a health
\* above zero and a row above the bottom of the screen.
C38_EnemiesAliveAndOnScreen ==
    pc = "poll" =>
        \A i \in 1..Len(enemies) :
            enemies[i].health > 0 /\ enemies[i].y < screen_height

\* C38 witness: a tick has just removed the lowest row of the wave at the
\* bottom of the screen, after a bullet destroyed an enemy; the rest is alive
\* on the screen
C38_Witness ==
    /\ pc = "poll"
    /\ hist.waves = 2
    /\ score > 0
    /\ enemies # << >>
    /\ \A i \in 1..Len(enemies) : enemies[i].y <= screen_height - 4
    /\ \E k \in 1..Len(Formation_get_positions(formations[1].formation_type)) :
          formations[1].center_y
              + Formation_get_positions(formations[1].formation_type)[k][2]
                  = screen_height


--------------------------------------------------------------------------
(* SpecTransit: every projectile from its creation to its removal, in a    *)
(* 150x40 terminal.  The ship walks to the lane and up to row 3, takes the *)
(* weapon dropped in frame 180 and descends to row 36.  Then the fire key  *)
(* is free during the first TransitWindow iterations, from frame 421 on;   *)
(* in frame 490 each enemy of the second wave fires or not, and the run    *)
(* goes on until the bombs of the window have expired, between the pickup  *)
(* draws of frames 360 and 540.  hist holds, for each projectile of the    *)
(* collection, the number of ticks it has been through, and the number of  *)
(* projectiles created so far.                                             *)

MaxTransit == 96

TransitWindow == 4

TransitSize == <<150, 40>>

\* The iterations the ship walks left: to a column below an enemy of the
\* wave, or to a column between two of them
TransitWalks == {36, 37}

\* The idle iterations before the fire key is free
TransitWait == 207

TransitFrames(walk, weapon_draw) ==
    Times(Quiet(<<"MoveLeft", "MoveUp">>), 20)
        \o Times(Quiet(<<"MoveLeft">>), walk - 20)
        \o Times(Quiet(<<"MoveUp">>), 33)
        \o Times(Quiet(<< >>), PICKUP_PERIOD - 1 - walk - 33)
        \o << Dropping(<< >>, weapon_draw, 80 - walk) >>
        \o Descent(33, 0)
        \o Times(Quiet(<< >>), TransitWait)

InitTransit ==
    /\ \E walk \in TransitWalks, weapon_draw \in 0..3 :
         StartsAs(Replay(App_new(0, 30, 0), TransitSize,
                         TransitFrames(walk, weapon_draw)))
    /\ hist = [iter |-> 0, ages |-> << >>, created |-> 0]
    /\ pc = "poll"

\* Projectile p carrying the number of ticks it has been through
Tagged(p, age) ==
    [f \in DOMAIN p \cup {"age"} |-> IF f = "age" THEN age ELSE p[f]]

\* Projectile p without that number
Untagged(p) == [f \in DOMAIN p \ {"age"} |-> p[f]]

\* The number of ticks projectile p has been through at the end of a tick:
\* one more for a projectile the tick has kept, none for one it has created
AgeAfter(p) == IF "age" \in DOMAIN p THEN p.age + 1 ELSE 0

TransitLoopTop ==
    /\ pc = "poll"
    /\ running
    /\ hist.iter < MaxTransit
    /\ \E actions \in (IF hist.iter < TransitWindow THEN {<< >>, <<"Fire">>}
                       ELSE {<< >>}) :
         LET v == process_actions(Resized(World, TransitSize), actions,
                                  [type_draw |-> 0, center_x |-> 30,
                                   enemy_draw |-> 0])
             fired == Len(v.projectiles) - Len(projectiles)
         IN  /\ Becomes(v)
             /\ hist' = [iter |-> hist.iter + 1,
                         ages |-> hist.ages \o Times(0, fired),
                         created |-> hist.created + fired]
    /\ pc' = "update"

TransitTick ==
    /\ pc = "update"
    /\ game_state = "Playing"
    /\ \E rnd \in TickDraws(World) :
         LET tagged == [World EXCEPT !.projectiles =
                          [i \in 1..Len(projectiles) |->
                             Tagged(projectiles[i], hist.ages[i])]]
             v == update_game(tagged, rnd)
             n == Len(v.projectiles)
         IN  /\ Becomes([v EXCEPT !.projectiles =
                           [i \in 1..n |-> Untagged(v.projectiles[i])]])
             /\ hist' = [hist EXCEPT
                           !.ages = [i \in 1..n |-> AgeAfter(v.projectiles[i])],
                           !.created = @ + Cardinality(
                               {i \in 1..n : "age" \notin DOMAIN v.projectiles[i]})]
    /\ pc' = "poll"

NextTransit == TransitLoopTop \/ TransitTick

SpecTransit == InitTransit /\ [][NextTransit]_vars

\* The lifetimes projectiles are created with (Slash, bomb)
CreationLifetimes == {10, 90}

\* C39: every projectile leaves the collection: one with a lifetime has been
\* through fewer ticks than the lifetime it was created with, its counter
\* having gone down by one in each of them and being above 0 still; one
\* without a lifetime has been through fewer ticks than the screen has rows.
\* So none stays longer than its lifetime or the screen height in ticks.
C39_ProjectilesLeave ==
    /\ Len(hist.ages) = Len(projectiles)
    /\ \A i \in 1..Len(projectiles) :
         LET p == projectiles[i]
             age == hist.ages[i]
         IN  IF IsSome(p.lifetime)
             THEN /\ Unwrap(p.lifetime) + age \in CreationLifetimes
                  /\ age < Unwrap(p.lifetime) + age
             ELSE age < screen_height

\* C39 witness: a bomb in its last tick but one, the bullets of the wave gone
C39_Witness ==
    /\ pc = "poll"
    /\ game_state = "Playing"
    /\ hist.created > 2
    /\ \E i \in 1..Len(projectiles) :
         /\ projectiles[i].projectile_type = "BomberProjectile"
         /\ projectiles[i].lifetime = Some(1)
         /\ hist.ages[i] = 89

\* C39 witness: a bullet of the ship that has climbed 35 rows
C39_BulletWitness ==
    /\ pc = "poll"
    /\ \E i \in 1..Len(projectiles) :
         /\ projectiles[i].projectile_type = "Bullet"
         /\ projectiles[i].owner = "Player"
         /\ projectiles[i].y = 1
         /\ hist.ages[i] = 35

\* C39 witness: all projectiles created have left the collection, among them
\* shots of the ship and of the wave
C39_AllGoneWitness ==
    /\ pc = "poll"
    /\ game_state = "Playing"
    /\ projectiles = << >>
    /\ hist.created >= 4
==========================================================================
